---- MODULE Spec2Model ----
(***************************************************************************)
(* The KCLExporter of fusion-kcl-export-script/fusion-kcl-export.py as a   *)
(* state machine.  The exporter object's fields are the state; the host    *)
(* application (adsk) is the read-only snapshot `app`; one action per       *)
(* handler of a translation run (export_design's prologue, export_sketch,   *)
(* export_feature, the return).                                             *)
(*                                                                         *)
(* Representation.                                                          *)
(*  - Text is a tuple of one-character strings; the string operations the   *)
(*    code uses (in, startswith, replace, int, zfill, re.findall, lower,    *)
(*    capitalize) are computed on those tuples.                             *)
(*  - A raw host length (centimetres, float) is an integer number of        *)
(*    1e-4 cm; a display value (rounded to 3 decimals by the code) is an    *)
(*    integer number of thousandths of the display unit.  Arithmetic is     *)
(*    exact decimal arithmetic: binary floating point error is not          *)
(*    modelled.                                                             *)
(*  - An emitted line is a record: its indentation, whether it went         *)
(*    through add_comment, the format string it was built from (tag), and   *)
(*    the text and number values substituted into the format string.        *)
(*  - None is the empty tuple <<>>.                                         *)
(***************************************************************************)
EXTENDS Integers, Sequences, FiniteSets, TLC

VARIABLES
    app,                      \* the host snapshot (adsk.core.Application): units, design
    kcl_content,              \* self.kcl_content
    indent_level,             \* self.indent_level
    debug_planes,             \* self.debug_planes
    body_to_feature_map,      \* self.body_to_feature_map : body token -> variable
    feature_to_kcl_name,      \* self.feature_to_kcl_name : feature token -> variable, insertion order kept
    units,                    \* self.units
    counter,                  \* self._counter (0 when the attribute does not exist yet)
    current_sketch_plane,     \* self.current_sketch_plane ("unset" when the attribute does not exist yet)
    current_profile_position, \* self.current_profile_position
    xz_flip_logged,           \* hasattr(self, '_xz_flip_logged')
    pc,                       \* position of the run: "idle", "sketches", "features", "return", "done", "raised"
    si,                       \* index of the next sketch of export_component's first loop
    fi,                       \* index of the next feature of export_component's second loop
    runs,                     \* export_design calls completed or aborted so far
    results,                  \* the documents the export_design calls returned, with the debug setting
    log,                      \* per handled item: what the handler was given and what it did
    sort_in,                  \* argument of a direct call of sort_curves_by_connectivity or get_safe_name
    sort_out,                 \* its return value (<<>> before the call)
    messages,                 \* the texts shown with ui.messageBox, in order
    files                     \* the documents written to .kcl files, in order

vars == <<app, kcl_content, indent_level, debug_planes, body_to_feature_map,
          feature_to_kcl_name, units, counter, current_sketch_plane,
          current_profile_position, xz_flip_logged, pc, si, fi, runs, results, log,
          sort_in, sort_out, messages, files>>

-----------------------------------------------------------------------------
(* Bounds of the model *)

MaxCurves == 4
MaxSketches == 2
MaxFeatures == 3
MaxRuns == 2

-----------------------------------------------------------------------------
(* Text *)

None == <<>>

W_extrude == <<"e","x","t","r","u","d","e">>
W_revolve == <<"r","e","v","o","l","v","e">>
W_solid == <<"s","o","l","i","d">>
W_subtract == <<"s","u","b","t","r","a","c","t">>
W_union == <<"u","n","i","o","n">>
W_intersect == <<"i","n","t","e","r","s","e","c","t">>
W_sketch == <<"s","k","e","t","c","h">>
W_unnamed == <<"u","n","n","a","m","e","d">>
W_eq == <<"=">>

\* `w in s`
Contains(s, w) ==
    \E k \in 1..(Len(s) - Len(w) + 1) : SubSeq(s, k, k + Len(w) - 1) = w

\* s.startswith(p)
StartsWith(s, p) == Len(s) >= Len(p) /\ SubSeq(s, 1, Len(p)) = p

DigitChars == <<"0","1","2","3","4","5","6","7","8","9">>

\* str(n) for n >= 0
RECURSIVE str_of(_)
str_of(n) == IF n < 10 THEN <<DigitChars[n + 1]>>
             ELSE str_of(n \div 10) \o <<DigitChars[(n % 10) + 1]>>

\* int(s) for a string of digits
RECURSIVE int_of(_)
int_of(s) == IF Len(s) = 0 THEN 0
             ELSE 10 * int_of(SubSeq(s, 1, Len(s) - 1))
                  + (CHOOSE d \in 0..9 : DigitChars[d + 1] = s[Len(s)])

\* s.zfill(w)
RECURSIVE zfill(_, _)
zfill(s, w) == IF Len(s) >= w THEN s ELSE zfill(<<"0">> \o s, w)

-----------------------------------------------------------------------------
(* Numbers *)

\* round(): nearest integer, ties to even
RoundDiv(n, d) ==
    LET q == n \div d
        r == n - q * d
    IN  IF 2 * r < d THEN q
        ELSE IF 2 * r > d THEN q + 1
        ELSE IF q % 2 = 0 THEN q ELSE q + 1

Abs(n) == IF n < 0 THEN -n ELSE n

\* units_manager.convert(value, 'cm', u): thousandths of u per 1e-4 cm, as <<num, den>>
UnitRatio(u) ==
    CASE u = "mm" -> <<1, 1>>
      [] u = "cm" -> <<1, 10>>
      [] u = "m"  -> <<1, 1000>>
      [] u = "in" -> <<10, 254>>
      [] u = "ft" -> <<10, 3048>>
      [] OTHER    -> <<1, 10>>

-----------------------------------------------------------------------------
(* Script Emitter *)

Line(indent, cmt, tag, strs, nums) ==
    [indent |-> indent, cmt |-> cmt, tag |-> tag, strs |-> strs, nums |-> nums]

add_line(self, tag, strs, nums) ==
    [self EXCEPT !.kcl_content =
        Append(@, Line(self.indent_level, FALSE, tag, strs, nums))]

add_comment(self, tag, strs, nums) ==
    [self EXCEPT !.kcl_content =
        Append(@, Line(self.indent_level, TRUE, tag, strs, nums))]

\* a comment that is only written when debug_planes is set
debug_comment(self, tag, strs, nums) ==
    IF self.debug_planes THEN add_comment(self, tag, strs, nums) ELSE self

Ret(self, val) == [self |-> self, val |-> val]

\* Body of the value of e: e is evaluated once
Let(e, Body(_)) == CHOOSE out \in {Body(r) : r \in {e}} : TRUE

-----------------------------------------------------------------------------
(* Unit/Coordinate Normalizer *)

convert_internal_to_display_units(self, value_cm) ==
    IF app.activeProduct # "Design"
    THEN Ret(self, RoundDiv(value_cm, 10))
    ELSE IF app.convertFails \/ app.defaultLengthUnits = "raise"
    THEN Ret(debug_comment(self, "Unit conversion failed: {e}, using raw value", <<>>, <<>>),
             RoundDiv(value_cm, 10))
    ELSE LET r == UnitRatio(app.defaultLengthUnits)
             display_value == RoundDiv(value_cm * r[1], r[2])
         IN  Ret(debug_comment(self, "Converted {value_cm} cm to {display_value} {units}",
                               <<>>, <<value_cm, display_value>>),
                 display_value)

convert_point_2d_unflipped(self, point) ==
    Let(convert_internal_to_display_units(self, point[1]),
        LAMBDA cx :
        Let(convert_internal_to_display_units(cx.self, point[2]),
            LAMBDA cy : Ret(cy.self, <<cx.val, cy.val>>)))

convert_point_2d(self, point) ==
    Let(convert_internal_to_display_units(
            debug_comment(self, "Raw point values (cm): x={x}, y={y}", <<>>, point),
            point[1]),
        LAMBDA cx :
        Let(convert_internal_to_display_units(cx.self, point[2]),
            LAMBDA cy :
            IF cy.self.current_sketch_plane = "XZ"
            THEN IF cy.self.debug_planes /\ ~cy.self.xz_flip_logged
                 THEN Ret([add_comment(cy.self, "XZ plane: Flipping Y coordinates",
                                       <<>>, <<cy.val, -cy.val>>)
                              EXCEPT !.xz_flip_logged = TRUE],
                          <<cx.val, -cy.val>>)
                 ELSE Ret(cy.self, <<cx.val, -cy.val>>)
            ELSE Ret(cy.self, <<cx.val, cy.val>>)))

adjust_extrude_distance_unchanged(self, distance, sketch_plane) == Ret(self, distance)

adjust_extrude_distance(self, distance, sketch_plane) ==
    IF sketch_plane = "XZ"
    THEN Ret(debug_comment(self, "XZ plane: Flipped extrude direction", <<>>,
                           <<distance, -distance>>),
             -distance)
    ELSE Ret(self, distance)

-----------------------------------------------------------------------------
(* Curve primitives.  A curve of the host is a record                      *)
(*   type   : "line", "arc", "circle" or "spline"                          *)
(*   start, end, center : raw sketch points (a circle has only a center)    *)
(*   fail   : "none"; "points" when reading a sketch point's geometry      *)
(*            raises; "geometry" when reading the curve's own geometry     *)
(*            (arc.geometry, circle.radius, spline.fitPoints) raises       *)
(*   radius, a0, a1 : raw radius, start and end angle (degrees)            *)
(*   fit    : the fit points of a spline                                   *)

Curve(type, start, end, fail) ==
    [type |-> type, start |-> start, end |-> end, center |-> start, fail |-> fail,
     radius |-> 50, a0 |-> 0, a1 |-> 90, fit |-> <<start, end>>]

get_curve_start_point(curve) ==
    IF curve.fail = "points" THEN None
    ELSE IF curve.type # "circle" THEN curve.start
    ELSE curve.center

get_curve_end_point(curve) ==
    IF curve.fail = "points" THEN None
    ELSE IF curve.type # "circle" THEN curve.end
    ELSE curve.center

\* the tolerance of points_are_close, 1e-6 cm, and the raw unit, 1e-4 cm, in 1e-6 cm
PointTolerance == 1
RawUnit == 100

points_are_close(point1, point2) ==
    IF point1 = None \/ point2 = None THEN FALSE
    ELSE /\ Abs(point1[1] - point2[1]) * RawUnit < PointTolerance
         /\ Abs(point1[2] - point2[2]) * RawUnit < PointTolerance

-----------------------------------------------------------------------------
(* Curve Graph Stitcher: sort_curves_by_connectivity.  The result is the   *)
(* sequence of the positions the returned curves have in all_curves.       *)

\* the keys of curve_endpoints
curve_endpoints(all_curves) ==
    {i \in 1..Len(all_curves) :
        /\ get_curve_start_point(all_curves[i]) # None
        /\ get_curve_end_point(all_curves[i]) # None}

\* first pass: the debug listing of the endpoints
RECURSIVE sort_first_pass(_, _, _)
sort_first_pass(self, all_curves, i) ==
    IF i > Len(all_curves) THEN self
    ELSE IF i \in curve_endpoints(all_curves) /\ self.debug_planes
    THEN Let(convert_point_2d(self, get_curve_start_point(all_curves[i])),
             LAMBDA a :
             Let(convert_point_2d(a.self, get_curve_end_point(all_curves[i])),
                 LAMBDA b :
                 sort_first_pass(
                     add_comment(b.self, "Curve {i} ({curve_type}): {start} -> {end}",
                                 <<>>, <<i - 1>> \o a.val \o b.val),
                     all_curves, i + 1)))
    ELSE sort_first_pass(self, all_curves, i + 1)

\* the tie-break tolerance of the start selection, 0.001 display units
StartTolerance == 1

\* whether start_converted replaces best_start_point
better_start(start_converted, best_start_point) ==
    \/ best_start_point = None
    \/ start_converted[1] < best_start_point[1]
    \/ /\ Abs(start_converted[1] - best_start_point[1]) < StartTolerance
       /\ start_converted[2] < best_start_point[2]

\* the search for the best starting curve; idx 0 is None
RECURSIVE sort_best_start(_, _, _, _, _)
sort_best_start(self, all_curves, i, best_idx, best_point) ==
    IF i > Len(all_curves) THEN [self |-> self, idx |-> best_idx, point |-> best_point]
    ELSE IF i \notin curve_endpoints(all_curves)
    THEN sort_best_start(self, all_curves, i + 1, best_idx, best_point)
    ELSE Let(convert_point_2d(self, get_curve_start_point(all_curves[i])),
             LAMBDA c :
             IF better_start(c.val, best_point)
             THEN sort_best_start(c.self, all_curves, i + 1, i, c.val)
             ELSE sort_best_start(c.self, all_curves, i + 1, best_idx, best_point))

\* one unused curve tried as the continuation: forward when it starts at the
\* current endpoint, else reversed when it ends there
chain_step_reversed_to_end(current_end_point, curve) ==
    IF points_are_close(current_end_point, get_curve_start_point(curve))
    THEN [found |-> TRUE, rev |-> FALSE, end |-> get_curve_end_point(curve)]
    ELSE IF points_are_close(current_end_point, get_curve_end_point(curve))
    THEN [found |-> TRUE, rev |-> TRUE, end |-> get_curve_end_point(curve)]
    ELSE [found |-> FALSE, rev |-> FALSE, end |-> current_end_point]

chain_step(current_end_point, curve) ==
    IF points_are_close(current_end_point, get_curve_start_point(curve))
    THEN [found |-> TRUE, rev |-> FALSE, end |-> get_curve_end_point(curve)]
    ELSE IF points_are_close(current_end_point, get_curve_end_point(curve))
    THEN [found |-> TRUE, rev |-> TRUE, end |-> get_curve_start_point(curve)]
    ELSE [found |-> FALSE, rev |-> FALSE, end |-> current_end_point]

Indices(n) == [i \in 1..n |-> i]

\* the while loop that follows the chain
RECURSIVE sort_follow_chain(_, _, _, _, _)
sort_follow_chain(self, all_curves, used, current_end_point, sorted_curves) ==
    IF Len(sorted_curves) >= Len(all_curves) THEN Ret(self, sorted_curves)
    ELSE Let({i \in curve_endpoints(all_curves) \ used :
                 chain_step(current_end_point, all_curves[i]).found},
             LAMBDA cand :
             IF cand = {}
             THEN Ret(debug_comment(self, "Could not find next connected curve, {remaining} curves remaining",
                                    <<>>, <<Len(all_curves) - Len(sorted_curves)>>),
                      sorted_curves \o
                        SelectSeq(Indices(Len(all_curves)),
                                  LAMBDA i : i \in curve_endpoints(all_curves) \ used))
             ELSE Let(CHOOSE j \in cand : \A k \in cand : j <= k,
                      LAMBDA i :
                      Let(chain_step(current_end_point, all_curves[i]),
                          LAMBDA step :
                          sort_follow_chain(
                              IF self.debug_planes
                              THEN add_comment(convert_point_2d(self, step.end).self,
                                               IF step.rev
                                               THEN "Connected to curve {i} (reversed), now at {end_converted}"
                                               ELSE "Connected to curve {i}, now at {end_converted}",
                                               <<>>, <<i - 1>>)
                              ELSE self,
                              all_curves, used \cup {i}, step.end,
                              Append(sorted_curves, i)))))

sort_curves_by_connectivity(self, all_curves) ==
    IF Len(all_curves) = 0 THEN Ret(self, <<>>)
    ELSE Let(sort_best_start(
                 sort_first_pass(
                     debug_comment(self, "Sorting {len(all_curves)} curves for connectivity",
                                   <<>>, <<Len(all_curves)>>),
                     all_curves, 1),
                 all_curves, 1, 0, None),
             LAMBDA best :
             IF best.idx = 0
             THEN Ret(debug_comment(best.self, "No valid starting curve found, using original order",
                                    <<>>, <<>>),
                      Indices(Len(all_curves)))
             ELSE Let(sort_follow_chain(
                          debug_comment(best.self,
                              "Starting with curve {best_start_curve_idx} at point {best_start_point}",
                              <<>>, <<best.idx - 1>> \o best.point),
                          all_curves, {best.idx},
                          get_curve_end_point(all_curves[best.idx]), <<best.idx>>),
                      LAMBDA chain :
                      Ret(debug_comment(chain.self,
                                        "Final curve order: {len(sorted_curves)} curves sorted",
                                        <<>>, <<Len(chain.val)>>),
                          chain.val)))

-----------------------------------------------------------------------------
(* The exporter object *)

Self ==
    [kcl_content |-> kcl_content, indent_level |-> indent_level,
     debug_planes |-> debug_planes, body_to_feature_map |-> body_to_feature_map,
     feature_to_kcl_name |-> feature_to_kcl_name, units |-> units,
     counter |-> counter, current_sketch_plane |-> current_sketch_plane,
     current_profile_position |-> current_profile_position,
     xz_flip_logged |-> xz_flip_logged]

SetSelf(self) ==
    /\ kcl_content' = self.kcl_content
    /\ indent_level' = self.indent_level
    /\ debug_planes' = self.debug_planes
    /\ body_to_feature_map' = self.body_to_feature_map
    /\ feature_to_kcl_name' = self.feature_to_kcl_name
    /\ units' = self.units
    /\ counter' = self.counter
    /\ current_sketch_plane' = self.current_sketch_plane
    /\ current_profile_position' = self.current_profile_position
    /\ xz_flip_logged' = self.xz_flip_logged

SelfIs(self) ==
    /\ kcl_content = self.kcl_content
    /\ indent_level = self.indent_level
    /\ debug_planes = self.debug_planes
    /\ body_to_feature_map = self.body_to_feature_map
    /\ feature_to_kcl_name = self.feature_to_kcl_name
    /\ units = self.units
    /\ counter = self.counter
    /\ current_sketch_plane = self.current_sketch_plane
    /\ current_profile_position = self.current_profile_position
    /\ xz_flip_logged = self.xz_flip_logged

\* KCLExporter.__init__
NewExporter(debug) ==
    [kcl_content |-> <<>>, indent_level |-> 0, debug_planes |-> debug,
     body_to_feature_map |-> <<>>, feature_to_kcl_name |-> <<>>, units |-> "mm",
     counter |-> 0, current_sketch_plane |-> "unset",
     current_profile_position |-> None, xz_flip_logged |-> FALSE]

\* the host: which product is active, its unit settings, and the design
Host(activeProduct, distanceDisplayUnits, defaultLengthUnits, convertFails, design) ==
    [activeProduct |-> activeProduct, distanceDisplayUnits |-> distanceDisplayUnits,
     defaultLengthUnits |-> defaultLengthUnits, convertFails |-> convertFails,
     design |-> design]

Design(name, parameters, sketches, features, bodies) ==
    [name |-> name, component |-> name, parameters |-> parameters,
     failParameters |-> FALSE, sketches |-> sketches, features |-> features,
     bodies |-> bodies]

EmptyDesign == Design(<<"d">>, <<>>, <<>>, <<>>, <<>>)

-----------------------------------------------------------------------------
(* Identifiers *)

LowerChars == <<"a","b","c","d","e","f","g","h","i","j","k","l","m",
                "n","o","p","q","r","s","t","u","v","w","x","y","z">>
UpperChars == <<"A","B","C","D","E","F","G","H","I","J","K","L","M",
                "N","O","P","Q","R","S","T","U","V","W","X","Y","Z">>

InSeq(seq, c) == \E i \in 1..Len(seq) : seq[i] = c
IndexOf(seq, c) == CHOOSE i \in 1..Len(seq) : seq[i] = c

isdigit(c) == InSeq(DigitChars, c)
\* the character class [a-zA-Z0-9]
IsAlnum(c) == InSeq(LowerChars, c) \/ InSeq(UpperChars, c) \/ isdigit(c)

lower_char(c) == IF InSeq(UpperChars, c) THEN LowerChars[IndexOf(UpperChars, c)] ELSE c
upper_char(c) == IF InSeq(LowerChars, c) THEN UpperChars[IndexOf(LowerChars, c)] ELSE c

lower(s) == [i \in 1..Len(s) |-> lower_char(s[i])]
upper(s) == [i \in 1..Len(s) |-> upper_char(s[i])]
capitalize(s) == IF Len(s) = 0 THEN s ELSE <<upper_char(s[1])>> \o lower(Tail(s))

\* re.findall(r'[a-zA-Z0-9]+', name): cur is the run being read, acc the runs found
RECURSIVE findall_alnum(_, _, _)
findall_alnum(name, cur, acc) ==
    IF Len(name) = 0 THEN (IF Len(cur) = 0 THEN acc ELSE Append(acc, cur))
    ELSE IF IsAlnum(Head(name))
    THEN findall_alnum(Tail(name), Append(cur, Head(name)), acc)
    ELSE findall_alnum(Tail(name), <<>>, IF Len(cur) = 0 THEN acc ELSE Append(acc, cur))

RECURSIVE camel_tail(_)
camel_tail(words) ==
    IF Len(words) = 0 THEN <<>> ELSE capitalize(Head(words)) \o camel_tail(Tail(words))

get_safe_name(name) ==
    LET words == findall_alnum(name, <<>>, <<>>)
    IN  IF Len(words) = 0 THEN W_unnamed
        ELSE LET safe_name == lower(words[1]) \o camel_tail(Tail(words))
             IN  IF isdigit(safe_name[1]) THEN W_sketch \o capitalize(safe_name)
                 ELSE safe_name

\* returns the new counter as text
get_unique_id(self) ==
    Ret([self EXCEPT !.counter = @ + 1], str_of(self.counter + 1))

-----------------------------------------------------------------------------
(* Plane Classifier.  A planar reference of the host is a record           *)
(*   objectType : "BRepFace", "ConstructionPlane" or another type          *)
(*   geometry   : "Plane" or another surface type                          *)
(*   normal     : the unit normal, in hundredths                           *)
(*   str        : str(plane)                                               *)
(*   fail       : reading the reference raises                             *)

Plane(objectType, geometry, normal, text, fail) ==
    [objectType |-> objectType, geometry |-> geometry, normal |-> normal,
     str |-> text, fail |-> fail]

\* tolerance = 0.1 on a unit normal, in hundredths
PlaneTolerance == 10
UnitNormal == 100

\* the comparison without abs()
plane_of_normal_signed(normal) ==
    IF normal[3] > UnitNormal - PlaneTolerance THEN "XY"
    ELSE IF normal[2] > UnitNormal - PlaneTolerance THEN "XZ"
    ELSE IF normal[1] > UnitNormal - PlaneTolerance THEN "YZ"
    ELSE "XY"

plane_of_normal(normal) ==
    IF Abs(normal[3]) > UnitNormal - PlaneTolerance THEN "XY"
    ELSE IF Abs(normal[2]) > UnitNormal - PlaneTolerance THEN "XZ"
    ELSE IF Abs(normal[1]) > UnitNormal - PlaneTolerance THEN "YZ"
    ELSE "XY"

plane_of_str(plane_str) ==
    IF Contains(plane_str, <<"X","Y">>) THEN "XY"
    ELSE IF Contains(plane_str, <<"X","Z">>) THEN "XZ"
    ELSE IF Contains(plane_str, <<"Y","Z">>) THEN "YZ"
    ELSE "XY"

get_plane_name(self, plane) ==
    IF plane.fail
    THEN Ret(debug_comment(debug_comment(self, "Error in plane detection: {e}", <<>>, <<>>),
                           "Using XY plane as fallback", <<>>, <<>>),
             "XY")
    ELSE LET s0 == debug_comment(debug_comment(self, "Plane debug - Object type: {objectType}",
                                               <<>>, <<>>),
                                 "Plane debug - String representation: {str(plane)}",
                                 <<plane.str>>, <<>>)
         IN  IF plane.objectType \in {"BRepFace", "ConstructionPlane"}
             THEN IF plane.geometry = "Plane"
                  THEN Ret(debug_comment(debug_comment(s0, "normal vector: ({x}, {y}, {z})",
                                                       <<>>, plane.normal),
                                         "Detected plane from normal", <<>>, <<>>),
                           plane_of_normal(plane.normal))
                  ELSE Ret(debug_comment(s0, "Non-planar surface type", <<>>, <<>>), "XY")
             ELSE Ret(debug_comment(debug_comment(s0, "Using string parsing fallback for plane: {plane_str}",
                                                  <<upper(plane.str)>>, <<>>),
                                    "String parsing result", <<>>, <<>>),
                      plane_of_str(upper(plane.str)))

-----------------------------------------------------------------------------
(* Feature Translator: sketches.  An operation that can raise returns the  *)
(* exporter as the exception left it and raised = TRUE.                    *)

Out(self, val, raised) == [self |-> self, val |-> val, raised |-> raised]

\* tolerance = 0.001 display units of export_line and export_spline
LineTolerance == 1

\* the line statement for the converted end points s and e
line_to(self, s, e) ==
    IF (e[1] - s[1]) * (e[1] - s[1]) + (e[2] - s[2]) * (e[2] - s[2])
          < LineTolerance * LineTolerance
    THEN Out(debug_comment(self, "Skipping zero-length line", <<>>, s \o e), None, FALSE)
    ELSE IF /\ self.current_profile_position # None
            /\ Abs(e[1] - self.current_profile_position[1]) < LineTolerance
            /\ Abs(e[2] - self.current_profile_position[2]) < LineTolerance
    THEN Out(debug_comment(self, "Skipping duplicate endpoint", <<>>,
                           e \o self.current_profile_position),
             None, FALSE)
    ELSE Out([add_line(self, "  |> line(endAbsolute = [{end_x}, {end_y}], %)", <<>>, e)
                 EXCEPT !.current_profile_position = e],
             None, FALSE)

export_line(self, line) ==
    IF line.fail = "points" THEN Out(self, None, TRUE)
    ELSE Let(convert_point_2d(self, line.start),
             LAMBDA s :
             Let(convert_point_2d(s.self, line.end),
                 LAMBDA e : line_to(e.self, s.val, e.val)))

export_arc(self, arc) ==
    IF arc.fail = "points" THEN Out(self, None, TRUE)
    ELSE Let(convert_point_2d(
                 convert_point_2d(convert_point_2d(self, arc.center).self, arc.start).self,
                 arc.end),
             LAMBDA e :
             IF arc.fail = "geometry" THEN Out(e.self, None, TRUE)
             ELSE Let(convert_internal_to_display_units(e.self, arc.radius),
                      LAMBDA radius :
                      Out([add_line(radius.self,
                                    "  |> arc(angleStart = {start}, angleEnd = {end}, radius = {radius}, %)",
                                    <<>>,
                                    <<arc.a0,
                                      IF arc.a1 < arc.a0 THEN arc.a1 + 360 ELSE arc.a1,
                                      radius.val>>)
                              EXCEPT !.current_profile_position = e.val],
                          None, FALSE)))

export_circle(self, circle) ==
    IF circle.fail # "none" THEN Out(self, None, TRUE)
    ELSE Let(convert_point_2d(self, circle.center),
             LAMBDA c :
             Let(convert_internal_to_display_units(c.self, circle.radius),
                 LAMBDA radius_value :
                 Out([add_line(radius_value.self,
                               "  |> circle(center = [{center_x}, {center_y}], diameter = {diameter_value}, %)",
                               <<>>, c.val \o <<radius_value.val * 2>>)
                         EXCEPT !.current_profile_position = c.val],
                     None, FALSE)))

\* the conversion of the fit points; val is the list of converted points
RECURSIVE spline_points(_, _, _)
spline_points(self, fit, points) ==
    IF Len(fit) = 0 THEN Ret(self, points)
    ELSE Let(convert_point_2d(self, Head(fit)),
             LAMBDA c : spline_points(c.self, Tail(fit), Append(points, c.val)))

RECURSIVE spline_segments(_, _, _)
spline_segments(self, points, i) ==
    IF i >= Len(points) THEN self
    ELSE LET dx == points[i + 1][1] - points[i][1]
             dy == points[i + 1][2] - points[i][2]
         IN  IF dx * dx + dy * dy >= LineTolerance * LineTolerance
             THEN spline_segments(
                      [add_line(self, "  |> line(endAbsolute = [{end[0]}, {end[1]}], %)",
                                <<>>, points[i + 1])
                          EXCEPT !.current_profile_position = points[i + 1]],
                      points, i + 1)
             ELSE spline_segments(self, points, i + 1)

export_spline(self, spline) ==
    IF spline.fail # "none" THEN Out(self, None, TRUE)
    ELSE Let(spline_points(self, spline.fit, <<>>),
             LAMBDA pts : Out(spline_segments(pts.self, pts.val, 1), None, FALSE))

export_curve(self, curve) ==
    CASE curve.type = "line" -> export_line(self, curve)
      [] curve.type = "arc" -> export_arc(self, curve)
      [] curve.type = "circle" -> export_circle(self, curve)
      [] curve.type = "spline" -> export_spline(self, curve)

\* the loop of export_sketch_curve over the sorted curves
RECURSIVE export_sorted_curves(_, _, _, _)
export_sorted_curves(self, all_curves, sorted_curves, k) ==
    IF k > Len(sorted_curves) THEN Out(self, None, FALSE)
    ELSE Let(export_curve(self, all_curves[sorted_curves[k]]),
             LAMBDA r :
             IF r.raised THEN r
             ELSE export_sorted_curves(r.self, all_curves, sorted_curves, k + 1))

OfType(curves, type) == SelectSeq(curves, LAMBDA c : c.type = type)

circles_present_any_curve(curves) == Len(curves) > 0

\* has_circles of export_sketch_curve: set when the loop over sketchCircles runs
circles_present(curves) == Len(OfType(curves, "circle")) > 0

\* val is has_circles
\* all_curves of export_sketch_curve: lines, arcs, circles, then splines
collect_curves(curves) ==
    OfType(curves, "line") \o OfType(curves, "arc")
    \o OfType(curves, "circle") \o OfType(curves, "spline")

\* the start of the profile at the first sorted curve, then the sorted curves
export_profile(self, all_curves, sorted_curves, first_curve) ==
    IF first_curve.fail = "points" THEN Out(self, None, TRUE)
    ELSE Let(convert_point_2d(self, IF first_curve.type = "circle"
                                    THEN first_curve.center ELSE first_curve.start),
             LAMBDA start_point :
             export_sorted_curves(
                 [add_line(start_point.self, "|> startProfile(at = [{x}, {y}], %)",
                           <<>>, start_point.val)
                     EXCEPT !.current_profile_position = start_point.val],
                 all_curves, sorted_curves, 1))

\* val is has_circles
export_sketch_curve(self, curves) ==
    Let(sort_curves_by_connectivity(self, collect_curves(curves)),
        LAMBDA sorted :
        IF Len(sorted.val) = 0 THEN Out(sorted.self, circles_present(curves), FALSE)
        ELSE Let(export_profile(sorted.self, collect_curves(curves), sorted.val,
                                collect_curves(curves)[sorted.val[1]]),
                 LAMBDA r : Out(r.self, circles_present(curves), r.raised)))

Sketch(name, referencePlane, curves) ==
    [name |-> name, referencePlane |-> referencePlane, curves |-> curves]

close_profile_always(self, has_circles) == add_line(self, "|> close(%)", <<>>, <<>>)

\* the profile is closed unless a circle was present
close_profile(self, has_circles) ==
    IF ~has_circles THEN add_line(self, "|> close(%)", <<>>, <<>>) ELSE self

\* the sketch block after the curve count: start, curves, close, blank line
export_sketch_block(self, sketch, plane_name) ==
    Let(export_sketch_curve(
            [add_line(self, "{sketch_var_name} = startSketchOn({plane_name})",
                      <<get_safe_name(sketch.name), <<plane_name>>>>, <<>>)
                EXCEPT !.indent_level = @ + 1],
            sketch.curves),
        LAMBDA r :
        IF r.raised THEN Out(r.self, None, TRUE)
        ELSE Out(add_line([close_profile(r.self, r.val) EXCEPT !.indent_level = @ - 1],
                          "", <<>>, <<>>),
                 None, FALSE))

export_sketch_unguarded(self, sketch) ==
    Let(get_plane_name(add_comment(self, "Sketch: {sketch.name}", <<sketch.name>>, <<>>),
                       sketch.referencePlane),
        LAMBDA plane_name :
        export_sketch_block([plane_name.self EXCEPT !.current_sketch_plane = plane_name.val,
                                                    !.current_profile_position = None],
                            sketch, plane_name.val))

export_sketch(self, sketch) ==
    Let(get_plane_name(add_comment(self, "Sketch: {sketch.name}", <<sketch.name>>, <<>>),
                       sketch.referencePlane),
        LAMBDA plane_name :
        Let(debug_comment([plane_name.self EXCEPT !.current_sketch_plane = plane_name.val,
                                                  !.current_profile_position = None],
                          "Sketch has {total_curves} total curves", <<>>,
                          <<Len(sketch.curves), Len(OfType(sketch.curves, "line")),
                            Len(OfType(sketch.curves, "arc")),
                            Len(OfType(sketch.curves, "circle"))>>),
            LAMBDA s2 :
            IF Len(sketch.curves) = 0
            THEN Out(add_comment(s2, "Skipping {sketch.name} - no curves found",
                                 <<sketch.name>>, <<>>),
                     None, FALSE)
            ELSE export_sketch_block(s2, sketch, plane_name.val)))

-----------------------------------------------------------------------------
(* Lineage Tracker.  A dict is the sequence of its <<key, value>> pairs in *)
(* insertion order.                                                        *)

dict_has(d, k) == \E i \in DOMAIN d : d[i][1] = k
dict_get(d, k) == d[CHOOSE i \in DOMAIN d : d[i][1] = k][2]
dict_set(d, k, v) ==
    IF dict_has(d, k) THEN [i \in DOMAIN d |-> IF d[i][1] = k THEN <<k, v>> ELSE d[i]]
    ELSE Append(d, <<k, v>>)

(* A feature of the host is a record                                       *)
(*   objectType  : "ExtrudeFeature", "RevolveFeature", "CombineFeature" or *)
(*                 another type;  failType: reading it raises              *)
(*   name        : the feature's name;  failName: reading it raises        *)
(*   entityToken : its token;  failToken: reading it raises                *)
(*   extent      : the kind of extentOne / extentDefinition                *)
(*   value       : the raw distance (an angle in degrees for a revolve);   *)
(*                 failExtent: reading it raises                           *)
(*   profile     : "none", "single", "collection" or "empty" (collection)  *)
(*   parentSketch: position of the profile's sketch in the component, or 0 *)
(*   bodies      : the tokens of feature.bodies; failBodies: reading raises*)
(*   operation   : the feature operation, or "raise"                       *)
(*   targetBody, toolBodies : of a combine: a body token or NoToken, and a  *)
(*                 list of body tokens                                    *)
(* A body of the component is a record entityToken, createdBy (a feature   *)
(* token, or NoToken).                                                     *)

NoToken == "none"

Body(entityToken, createdBy) == [entityToken |-> entityToken, createdBy |-> createdBy]

\* the bodies found through the feature: val is the list of body tokens
feature_bodies(self, feature) ==
    IF feature.failBodies
    THEN Ret(debug_comment(debug_comment(self, "Extrude has bodies property", <<>>, <<>>),
                           "Error accessing bodies collection: {e}", <<>>, <<>>),
             <<>>)
    ELSE Ret(debug_comment(debug_comment(self, "Extrude has bodies property", <<>>, <<>>),
                           "Bodies collection has {body_count} bodies", <<>>,
                           <<Len(feature.bodies)>>),
             feature.bodies)

RECURSIVE map_bodies(_, _, _)
map_bodies(self, bodies, kcl_var_name) ==
    IF Len(bodies) = 0 THEN self
    ELSE map_bodies(
             debug_comment([self EXCEPT !.body_to_feature_map =
                                dict_set(@, Head(bodies), kcl_var_name)],
                           "Body tracking: {body_name} (token: {body_token}) created by {kcl_var_name}",
                           <<kcl_var_name>>, <<>>),
             Tail(bodies), kcl_var_name)

\* the last body whatever its creator
logical_body_last(component_bodies, feature) ==
    component_bodies[Len(component_bodies)]

\* the body the fallback picks among several: the one created by the feature, else the last
logical_body(component_bodies, feature) ==
    IF \E i \in DOMAIN component_bodies : component_bodies[i].createdBy = feature.entityToken
    THEN component_bodies[CHOOSE i \in DOMAIN component_bodies :
             /\ component_bodies[i].createdBy = feature.entityToken
             /\ \A j \in DOMAIN component_bodies :
                    component_bodies[j].createdBy = feature.entityToken => i <= j]
    ELSE component_bodies[Len(component_bodies)]

\* the fallback through the bodies of the component when the feature reports none
logical_body_tracking(self, feature, kcl_var_name) ==
    Let(debug_comment(self, "Component has {body_count} total bodies", <<>>,
                      <<Len(app.design.bodies)>>),
        LAMBDA s0 :
        IF Len(app.design.bodies) = 1
        THEN debug_comment([s0 EXCEPT !.body_to_feature_map =
                               dict_set(@, app.design.bodies[1].entityToken, kcl_var_name)],
                           "Logical tracking: {kcl_var_name} associated with single body",
                           <<kcl_var_name>>, <<>>)
        ELSE IF Len(app.design.bodies) > 1
        THEN debug_comment(
                 [debug_comment(s0, "Multiple bodies detected", <<>>, <<>>)
                     EXCEPT !.body_to_feature_map =
                         dict_set(@, logical_body(app.design.bodies, feature).entityToken,
                                  kcl_var_name)],
                 IF \E i \in DOMAIN app.design.bodies :
                        app.design.bodies[i].createdBy = feature.entityToken
                 THEN "Found body created by {kcl_var_name} via createdBy check"
                 ELSE "Fallback: assuming last body was created by {kcl_var_name}",
                 <<kcl_var_name>>, <<>>)
        ELSE s0)

\* the mapping of the bodies found, or the fallback, and the closing comments
track_found_bodies(self, extrude_feature, kcl_var_name, bodies) ==
    Let(debug_comment(
            IF Len(bodies) = 0
            THEN logical_body_tracking(
                     debug_comment(map_bodies(self, bodies, kcl_var_name),
                                   "No bodies found via API - implementing logical tracking",
                                   <<>>, <<>>),
                     extrude_feature, kcl_var_name)
            ELSE map_bodies(self, bodies, kcl_var_name),
            "Successfully tracked {len(bodies)} bodies for {kcl_var_name}",
            <<kcl_var_name>>, <<>>),
        LAMBDA s5 :
        IF Len(bodies) = 0 /\ Len(app.design.bodies) = 0
        THEN debug_comment(s5, "WARNING: No bodies were tracked for this extrude", <<>>, <<>>)
        ELSE s5)

track_extrude_bodies(self, extrude_feature, kcl_var_name) ==
    IF extrude_feature.failToken
    THEN debug_comment(self, "Error tracking bodies for {kcl_var_name}: {e}", <<kcl_var_name>>, <<>>)
    ELSE Let(feature_bodies(
                 debug_comment(
                     debug_comment(
                         [self EXCEPT !.feature_to_kcl_name =
                             dict_set(@, extrude_feature.entityToken, kcl_var_name)],
                         "Attempting to track bodies for {kcl_var_name}", <<kcl_var_name>>, <<>>),
                     IF extrude_feature.operation = "raise"
                     THEN "Could not get operation type: {e}"
                     ELSE "Extrude operation type: {operation_name}", <<>>, <<>>),
                 extrude_feature),
             LAMBDA found :
             track_found_bodies(
                 debug_comment(found.self, "No linked features found", <<>>, <<>>),
                 extrude_feature, kcl_var_name, found.val))

\* find_kcl_name_for_body: val is the variable or None
find_kcl_name_for_body(self, body) ==
    IF dict_has(self.body_to_feature_map, body.entityToken)
    THEN Ret(debug_comment(self, "Found cached mapping: {body_token} -> {kcl_name}",
                           <<dict_get(self.body_to_feature_map, body.entityToken)>>, <<>>),
             dict_get(self.body_to_feature_map, body.entityToken))
    ELSE IF body.createdBy # NoToken
    THEN Let(debug_comment(debug_comment(self, "Body created by feature: {objectType}", <<>>, <<>>),
                           "Feature token: {creating_feature_token}", <<>>, <<>>),
             LAMBDA s0 :
             IF dict_has(self.feature_to_kcl_name, body.createdBy)
             THEN Ret(debug_comment(
                          [s0 EXCEPT !.body_to_feature_map =
                              dict_set(@, body.entityToken,
                                       dict_get(self.feature_to_kcl_name, body.createdBy))],
                          "Found KCL name {kcl_name} for body via createdBy feature",
                          <<dict_get(self.feature_to_kcl_name, body.createdBy)>>, <<>>),
                      dict_get(self.feature_to_kcl_name, body.createdBy))
             ELSE Ret(debug_comment(
                          debug_comment(
                              debug_comment(s0, "Creating feature token not found in feature_to_kcl_name mapping",
                                            <<>>, <<>>),
                              "Available feature tokens: {keys}", <<>>, <<>>),
                          "Could not find KCL name for body", <<>>, <<>>),
                      None))
    ELSE Ret(debug_comment(debug_comment(self, "Body has no createdBy feature", <<>>, <<>>),
                           "Could not find KCL name for body", <<>>, <<>>),
             None)

-----------------------------------------------------------------------------
(* Feature Translator: features *)

Feature(objectType, name, entityToken) ==
    [objectType |-> objectType, failType |-> FALSE, name |-> name, failName |-> FALSE,
     entityToken |-> entityToken, failToken |-> FALSE, extent |-> "Distance",
     value |-> 100, failExtent |-> FALSE, profile |-> "single", parentSketch |-> 1,
     bodies |-> <<>>, failBodies |-> FALSE, operation |-> "NewBody",
     targetBody |-> NoToken, toolBodies |-> <<>>]

\* the fallback distances of export_extrude, in thousandths of a display unit
ThroughAllDistance == 100000
ToEntityDistance == 50000
UnsupportedExtentDistance == 10000

\* the distance of the extent: val is the distance, raised when the host query fails
extrude_distance(self, extrude) ==
    CASE extrude.extent = "Distance" ->
            IF extrude.failExtent THEN Out(self, None, TRUE)
            ELSE Let(convert_internal_to_display_units(
                         debug_comment(self, "Raw extrude distance (cm): {raw_distance}",
                                       <<>>, <<extrude.value>>),
                         extrude.value),
                     LAMBDA c : Out(c.self, c.val, FALSE))
      [] extrude.extent = "ThroughAll" ->
            Out(add_comment(self, "Note: Through-all extent converted to 100 units", <<>>, <<>>),
                ThroughAllDistance, FALSE)
      [] extrude.extent = "ToEntity" ->
            Out(add_comment(self, "Note: To-entity extent converted to 50 units", <<>>, <<>>),
                ToEntityDistance, FALSE)
      [] extrude.extent = "Symmetric" ->
            IF extrude.failExtent THEN Out(self, None, TRUE)
            ELSE Let(convert_internal_to_display_units(self, extrude.value),
                     LAMBDA c :
                     Out(add_comment(c.self, "Note: Symmetric extent - using total distance",
                                     <<>>, <<>>),
                         c.val, FALSE))
      [] extrude.extent = "TwoSides" ->
            IF extrude.failExtent THEN Out(self, None, TRUE)
            ELSE Let(convert_internal_to_display_units(self, extrude.value),
                     LAMBDA c :
                     Out(add_comment(c.self, "Note: Two-sided extent - using first side distance only",
                                     <<>>, <<>>),
                         c.val, FALSE))
      [] OTHER ->
            Out(add_comment(self, "Unsupported extent type: {objectType}", <<>>, <<>>),
                UnsupportedExtentDistance, FALSE)

\* whether the profile leads to a sketch
has_parent_sketch(feature) ==
    feature.profile \in {"single", "collection"} /\ feature.parentSketch # 0

\* the statement of an extrude with a resolvable sketch, and the registration
extrude_statement(self, extrude, sketch_name, adjusted_distance) ==
    Let(get_unique_id(self),
        LAMBDA extrude_id :
        track_extrude_bodies(
            add_line(extrude_id.self,
                     "{extrude_var_name} = {sketch_name} |> extrude(length = {adjusted_distance})",
                     <<W_extrude \o extrude_id.val, sketch_name>>, <<adjusted_distance>>),
            extrude, W_extrude \o extrude_id.val))

extrude_from_sketch(self, extrude, distance) ==
    Let(get_plane_name(self, app.design.sketches[extrude.parentSketch].referencePlane),
        LAMBDA sketch_plane :
        Let(adjust_extrude_distance(sketch_plane.self, distance, sketch_plane.val),
            LAMBDA adjusted_distance :
            extrude_statement(adjusted_distance.self, extrude,
                              get_safe_name(app.design.sketches[extrude.parentSketch].name),
                              adjusted_distance.val)))

\* the fallback statement of an extrude whose profile leads to no sketch
extrude_fallback(self, distance) ==
    Let(get_unique_id(self),
        LAMBDA id :
        add_line(id.self, "extrude{id} = sketch |> extrude(length = {distance})",
                 <<W_extrude \o id.val, W_sketch>>, <<distance>>))

export_extrude(self, extrude) ==
    IF extrude.failName THEN Out(self, None, TRUE)
    ELSE Let(extrude_distance(
                 add_comment(self, "Extrude: {extrude.name}", <<extrude.name>>, <<>>),
                 extrude),
             LAMBDA distance :
             Out(add_line(
                     IF distance.raised
                     THEN add_comment(distance.self, "Error processing extrude: {e}", <<>>, <<>>)
                     ELSE IF extrude.profile = "none"
                     THEN add_comment(distance.self, "Warning: No profile found for extrude",
                                      <<>>, <<>>)
                     ELSE IF extrude.profile = "empty"
                     THEN add_comment(distance.self, "Warning: Empty profile collection",
                                      <<>>, <<>>)
                     ELSE IF has_parent_sketch(extrude)
                     THEN extrude_from_sketch(distance.self, extrude, distance.val)
                     ELSE extrude_fallback(distance.self, distance.val),
                     "", <<>>, <<>>),
                 None, FALSE))

FullSweepAngle == 360

\* the statement of a revolve with a profile
revolve_statement(self, revolve, angle) ==
    Let(get_unique_id(self),
        LAMBDA id :
        add_line(id.self,
                 "revolve{id} = {sketch_name} |> revolve(axis = Y, angle = {angle})",
                 <<W_revolve \o id.val,
                   IF has_parent_sketch(revolve)
                   THEN get_safe_name(app.design.sketches[revolve.parentSketch].name)
                   ELSE W_sketch>>,
                 <<angle>>))

\* the profile handling of export_revolve
revolve_profile(self, revolve, angle) ==
    IF revolve.profile = "none"
    THEN add_comment(self, "Warning: No profile found for revolve", <<>>, <<>>)
    ELSE IF revolve.profile = "empty"
    THEN add_comment(self, "Warning: Empty profile collection", <<>>, <<>>)
    ELSE revolve_statement(self, revolve, angle)

export_revolve(self, revolve) ==
    IF revolve.failName THEN Out(self, None, TRUE)
    ELSE Let(add_comment(self, "Revolve: {revolve.name}", <<revolve.name>>, <<>>),
             LAMBDA s0 :
             Out(add_line(
                     IF revolve.extent = "Angle" /\ revolve.failExtent
                     THEN add_comment(s0, "Error processing revolve: {e}", <<>>, <<>>)
                     ELSE IF revolve.extent = "Angle"
                     THEN revolve_profile(s0, revolve, revolve.value)
                     ELSE IF revolve.extent = "FullSweep"
                     THEN revolve_profile(
                              add_comment(s0, "Note: Full sweep converted to 360 degrees",
                                          <<>>, <<>>),
                              revolve, FullSweepAngle)
                     ELSE add_comment(s0, "Warning: Unsupported revolve extent type", <<>>, <<>>),
                     "", <<>>, <<>>),
                 None, FALSE))

-----------------------------------------------------------------------------
(* export_combine searches the text of the lines emitted so far.  The text  *)
(* of a line is its format string with the values of strs substituted; a    *)
(* word is in the line when the fixed text of the format string has it or   *)
(* one of the substituted values has it.                                    *)

TagsWithSolid ==
    {"Could not find unused extrudes. Recent solid: {recent_solid}, Unused: {unused_extrudes}"}

TagsWithEq ==
    {"Raw point values (cm): x={x}, y={y}",
     "{sketch_var_name} = startSketchOn({plane_name})",
     "|> startProfile(at = [{x}, {y}], %)",
     "  |> line(endAbsolute = [{end_x}, {end_y}], %)",
     "  |> line(endAbsolute = [{end[0]}, {end[1]}], %)",
     "  |> arc(angleStart = {start}, angleEnd = {end}, radius = {radius}, %)",
     "  |> circle(center = [{center_x}, {center_y}], diameter = {diameter_value}, %)",
     "{extrude_var_name} = {sketch_name} |> extrude(length = {adjusted_distance})",
     "extrude{id} = sketch |> extrude(length = {distance})",
     "revolve{id} = {sketch_name} |> revolve(axis = Y, angle = {angle})",
     "{solid_var_name} = {operation_name}({target_kcl_name}, tools = {tool_kcl_name})",
     "{solid_var_name} = {operation_name}({target_kcl_name}, {tool_kcl_name})",
     "@settings(defaultLengthUnit = {self.units})",
     "{kcl_param_name} = {value}",
     "=== PARAMETERS ===", "=== SKETCHES ===", "=== FEATURES ==="}

\* the format strings that start with the variable the line defines (strs[1])
StatementTags ==
    {"{sketch_var_name} = startSketchOn({plane_name})",
     "{extrude_var_name} = {sketch_name} |> extrude(length = {adjusted_distance})",
     "extrude{id} = sketch |> extrude(length = {distance})",
     "revolve{id} = {sketch_name} |> revolve(axis = Y, angle = {angle})",
     "{solid_var_name} = {operation_name}({target_kcl_name}, tools = {tool_kcl_name})",
     "{solid_var_name} = {operation_name}({target_kcl_name}, {tool_kcl_name})",
     "{kcl_param_name} = {value}"}

LineHas(line, w) ==
    \/ w = W_solid /\ line.tag \in TagsWithSolid
    \/ w = W_eq /\ line.tag \in TagsWithEq
    \/ \E i \in DOMAIN line.strs : Contains(line.strs[i], w)

HasBooleanWord(line) ==
    LineHas(line, W_subtract) \/ LineHas(line, W_union) \/ LineHas(line, W_intersect)

\* line.split('=')[0].strip(); a line that is not a statement starts with other text
lhs_of(line) ==
    IF ~line.cmt /\ line.tag \in StatementTags THEN line.strs[1] ELSE <<"/", "/">>

\* x.replace(w, '')
RECURSIVE remove_all(_, _)
remove_all(x, w) ==
    IF Len(x) < Len(w) THEN x
    ELSE IF SubSeq(x, 1, Len(w)) = w THEN remove_all(SubSeq(x, Len(w) + 1, Len(x)), w)
    ELSE <<Head(x)>> \o remove_all(Tail(x), w)

extrude_key(x) == int_of(remove_all(x, W_extrude))

\* list.sort(key=...): insertion sort, stable
RECURSIVE insert_sorted(_, _)
insert_sorted(sorted, x) ==
    IF Len(sorted) = 0 THEN <<x>>
    ELSE IF extrude_key(x) < extrude_key(Head(sorted)) THEN <<x>> \o sorted
    ELSE <<Head(sorted)>> \o insert_sorted(Tail(sorted), x)

RECURSIVE sort_extrudes(_)
sort_extrudes(names) ==
    IF Len(names) = 0 THEN <<>>
    ELSE insert_sorted(sort_extrudes(SubSeq(names, 1, Len(names) - 1)), names[Len(names)])

\* "Get all extrude names in order"
extrude_names_of(self) ==
    sort_extrudes(SelectSeq([i \in DOMAIN self.feature_to_kcl_name |->
                                self.feature_to_kcl_name[i][2]],
                            LAMBDA n : StartsWith(n, W_extrude)))

combine_count_of(self) ==
    Cardinality({i \in DOMAIN self.kcl_content :
                    LineHas(self.kcl_content[i], W_solid) /\ HasBooleanWord(self.kcl_content[i])})

\* "Find the most recent solid": None when there is none
recent_solid_of(self) ==
    LET hits == {i \in DOMAIN self.kcl_content :
                    /\ LineHas(self.kcl_content[i], W_solid)
                    /\ LineHas(self.kcl_content[i], W_eq)
                    /\ StartsWith(lhs_of(self.kcl_content[i]), W_solid)}
    IN  IF hits = {} THEN None
        ELSE lhs_of(self.kcl_content[CHOOSE i \in hits : \A j \in hits : j <= i])

used_extrudes_of(self, extrude_names) ==
    {extrude_names[k] : k \in {n \in DOMAIN extrude_names :
        \E i \in DOMAIN self.kcl_content :
            /\ HasBooleanWord(self.kcl_content[i])
            /\ LineHas(self.kcl_content[i], extrude_names[n])}}

operation_name_of(combine) ==
    CASE combine.operation = "Join" -> W_union
      [] combine.operation = "Cut" -> W_subtract
      [] combine.operation = "Intersect" -> W_intersect
      [] OTHER -> W_subtract

\* the deduction of the operands: val is <<target, tool>>, None for one not found
\* the extrudes not used by a boolean line, the first extrude excluded
unused_extrudes_of(extrude_names, used_extrudes) ==
    SelectSeq(extrude_names, LAMBDA e : e \notin used_extrudes /\ e # extrude_names[1])

\* the deduction of a later combine from the most recent solid and the unused extrudes
deduce_later(self, combine_count, extrude_names, recent_solid, used_extrudes) ==
    IF recent_solid # None /\ Len(unused_extrudes_of(extrude_names, used_extrudes)) > 0
    THEN Ret(add_comment(
                 debug_comment(self, "Used extrudes so far: {sorted(used_extrudes)}",
                               SelectSeq(extrude_names, LAMBDA e : e \in used_extrudes), <<>>),
                 "Combine #{combine_count + 1}: {target_kcl_name} - {tool_kcl_name}",
                 <<recent_solid, unused_extrudes_of(extrude_names, used_extrudes)[1]>>,
                 <<combine_count + 1>>),
             <<recent_solid, unused_extrudes_of(extrude_names, used_extrudes)[1]>>)
    ELSE Ret(add_comment(
                 debug_comment(self, "Used extrudes so far: {sorted(used_extrudes)}",
                               SelectSeq(extrude_names, LAMBDA e : e \in used_extrudes), <<>>),
                 "Could not find unused extrudes. Recent solid: {recent_solid}, Unused: {unused_extrudes}",
                 <<recent_solid>> \o unused_extrudes_of(extrude_names, used_extrudes), <<>>),
             <<None, None>>)

\* the deduction for the counted boolean lines and the sorted extrude names
deduce_from(self, combine_count, extrude_names) ==
    Let(debug_comment(
            debug_comment(self, "This is combine operation #{combine_count + 1}",
                          <<>>, <<combine_count + 1>>),
            "Available extrudes: {extrude_names}", extrude_names, <<>>),
        LAMBDA s1 :
        IF combine_count = 0 /\ Len(extrude_names) >= 2
        THEN Ret(add_comment(s1, "First combine: {target_kcl_name} - {tool_kcl_name}",
                             <<extrude_names[1], extrude_names[2]>>, <<>>),
                 <<extrude_names[1], extrude_names[2]>>)
        ELSE deduce_later(s1, combine_count, extrude_names, recent_solid_of(s1),
                          used_extrudes_of(s1, extrude_names)))

\* the deduction of the operands: val is <<target, tool>>, None for one not found
deduce_operands(self) == deduce_from(self, combine_count_of(self), extrude_names_of(self))

\* the boolean statement for deduced operands, or the comments of a skipped combine
combine_statement(self, operation_name, target_kcl_name, tool_kcl_name) ==
    IF target_kcl_name # None /\ tool_kcl_name # None
    THEN Let(get_unique_id(self),
             LAMBDA id :
             debug_comment(
                 add_line(id.self,
                          IF operation_name = W_subtract
                          THEN "{solid_var_name} = {operation_name}({target_kcl_name}, tools = {tool_kcl_name})"
                          ELSE "{solid_var_name} = {operation_name}({target_kcl_name}, {tool_kcl_name})",
                          <<W_solid \o zfill(id.val, 3), operation_name, target_kcl_name,
                            tool_kcl_name>>, <<>>),
                 "SUCCESS: Generated logical boolean operation", <<>>, <<>>))
    ELSE add_comment(
             add_comment(
                 add_comment(self, "Could not deduce combine parameters - SKIPPING", <<>>, <<>>),
                 "  Could not determine target", <<>>, <<>>),
             "  Could not determine tool", <<>>, <<>>)

export_combine(self, combine) ==
    IF combine.failName THEN Out(self, None, TRUE)
    ELSE Let(deduce_operands(
                 debug_comment(
                     IF combine.operation = "raise"
                     THEN add_comment(
                              add_comment(self, "Combine: {combine.name}", <<combine.name>>, <<>>),
                              "Could not get operation type: {e}", <<>>, <<>>)
                     ELSE debug_comment(
                              add_comment(self, "Combine: {combine.name}", <<combine.name>>, <<>>),
                              "Boolean operation: {operation_name}",
                              <<operation_name_of(combine)>>, <<>>),
                     "Using logical deduction for combine operation", <<>>, <<>>)),
             LAMBDA operands :
             Out(add_line(combine_statement(operands.self, operation_name_of(combine),
                                            operands.val[1], operands.val[2]),
                          "", <<>>, <<>>),
                 None, FALSE))

export_feature(self, feature) ==
    IF feature.failType THEN Out(self, None, TRUE)
    ELSE CASE feature.objectType = "ExtrudeFeature" -> export_extrude(self, feature)
           [] feature.objectType = "RevolveFeature" -> export_revolve(self, feature)
           [] feature.objectType = "CombineFeature" -> export_combine(self, feature)
           [] OTHER -> Out(self, None, FALSE)

-----------------------------------------------------------------------------
(* export_design: units, header, parameters, component *)

LengthUnits == {"in", "mm", "cm", "m", "ft"}

\* the unit a unit-name string stands for
unit_of_string(length_unit_string) ==
    CASE length_unit_string \in {"in", "inch"} -> "in"
      [] length_unit_string \in {"mm", "millimeter"} -> "mm"
      [] length_unit_string \in {"cm", "centimeter"} -> "cm"
      [] length_unit_string \in {"m", "meter"} -> "m"
      [] length_unit_string \in {"ft", "foot"} -> "ft"
      [] OTHER -> "mm"

\* app.distanceDisplayUnits is the unit the enum value stands for, "other" for a
\* value outside the five, "raise" when the query fails
detect_document_units(self) ==
    IF app.activeProduct # "Design"
    THEN Ret(debug_comment(self, "No active design found, defaulting to mm", <<>>, <<>>), "mm")
    ELSE IF app.distanceDisplayUnits # "raise"
    THEN LET s0 == debug_comment(self, "fusionUnitsManager.distanceDisplayUnits enum: {enum}",
                                 <<>>, <<>>)
         IN  IF app.distanceDisplayUnits \in LengthUnits
             THEN Ret(debug_comment(s0, "Detected unit from enum", <<>>, <<>>),
                      app.distanceDisplayUnits)
             ELSE Ret(debug_comment(s0, "Unsupported enum value {enum}, defaulting to mm",
                                    <<>>, <<>>),
                      "mm")
    ELSE LET s0 == debug_comment(self, "fusionUnitsManager failed: {e1}", <<>>, <<>>)
         IN  IF app.defaultLengthUnits = "raise"
             THEN Ret(debug_comment(s0, "unitsManager also failed: {e2}", <<>>, <<>>), "mm")
             ELSE Ret(debug_comment(
                          debug_comment(s0, "unitsManager.defaultLengthUnits: '{string}'",
                                        <<>>, <<>>),
                          "Detected unit from string", <<>>, <<>>),
                      unit_of_string(app.defaultLengthUnits))

(* A parameter of the host is a record name, value (raw), unit,            *)
(* comment, expression (TRUE when it differs from str(value)), user (a     *)
(* user parameter), fail (reading it raises).                              *)

Parameter(name, value, unit, user) ==
    [name |-> name, value |-> value, unit |-> unit, comment |-> <<>>,
     expression |-> FALSE, user |-> user, fail |-> FALSE]

\* the original name, the comment, the unit and the expression note of the trailing comment
comment_parts_of(param, kcl_param_name) ==
    IF Len(param.comment) > 0 \/ param.name # kcl_param_name
    THEN (IF param.name # kcl_param_name THEN <<param.name>> ELSE <<>>)
         \o (IF Len(param.comment) > 0 THEN <<param.comment>> ELSE <<>>)
         \o (IF param.unit # "" THEN <<<<param.unit>>>> ELSE <<>>)
         \o (IF param.expression THEN <<<<"expression">>>> ELSE <<>>)
    ELSE <<>>

export_parameter(self, param) ==
    IF param.fail
    THEN debug_comment(self, "Error exporting parameter {param.name}: {e}", <<>>, <<>>)
    ELSE Let(IF param.unit \in LengthUnits
             THEN convert_internal_to_display_units(self, param.value)
             ELSE Ret(self, param.value),
             LAMBDA value :
             add_line(value.self, "{kcl_param_name} = {value}",
                      <<get_safe_name(param.name)>>
                          \o comment_parts_of(param, get_safe_name(param.name)),
                      <<value.val>>))

RECURSIVE export_each_parameter(_, _)
export_each_parameter(self, params) ==
    IF Len(params) = 0 THEN self
    ELSE export_each_parameter(export_parameter(self, Head(params)), Tail(params))

\* a titled group of parameters followed by a blank line; nothing when the group is skipped
export_parameter_group(self, title, params, wanted) ==
    IF Len(params) > 0 /\ wanted
    THEN add_line(export_each_parameter(add_comment(self, title, <<>>, <<>>), params),
                  "", <<>>, <<>>)
    ELSE self

export_parameters(self, design) ==
    IF design.failParameters
    THEN add_line(debug_comment(self, "Error exporting parameters: {e}", <<>>, <<>>),
                  "", <<>>, <<>>)
    ELSE IF Len(design.parameters) = 0
    THEN debug_comment(self, "No parameters found in design", <<>>, <<>>)
    ELSE Let(export_parameter_group(
                 export_parameter_group(
                     add_comment(self, "=== PARAMETERS ===", <<>>, <<>>),
                     "User Parameters:",
                     SelectSeq(design.parameters, LAMBDA q : q.user), TRUE),
                 "Model Parameters (auto-generated):",
                 SelectSeq(design.parameters, LAMBDA q : ~q.user), self.debug_planes),
             LAMBDA s2 :
             IF Len(SelectSeq(design.parameters, LAMBDA q : q.user)) = 0 /\ ~self.debug_planes
             THEN add_line(add_comment(s2, "No user parameters defined", <<>>, <<>>),
                           "", <<>>, <<>>)
             ELSE s2)

\* the header of the document for the detected unit
export_header(self, design) ==
    add_line(
        add_line(
            add_line(
                add_line(
                    add_comment(
                        add_comment(self, "Generated from Fusion 360", <<>>, <<>>),
                        "Design: {design.parentDocument.name}", <<design.name>>, <<>>),
                    "", <<>>, <<>>),
                "// Set units", <<>>, <<>>),
            "@settings(defaultLengthUnit = {self.units})", <<<<self.units>>>>, <<>>),
        "", <<>>, <<>>)

\* export_design up to the call of export_component
export_design_prologue(self, design) ==
    Let(detect_document_units([self EXCEPT !.kcl_content = <<>>]),
        LAMBDA detected :
        export_parameters(
            export_header([detected.self EXCEPT !.units = detected.val], design),
            design))

\* export_component up to its first loop
export_component_head(self, component) ==
    Let(add_line(
            add_comment(
                add_comment(self, "Component: {component.name}", <<component.component>>, <<>>),
                "Found {sketches.count} sketches and {features.count} features",
                <<>>, <<Len(component.sketches), Len(component.features)>>),
            "", <<>>, <<>>),
        LAMBDA s2 :
        IF Len(component.sketches) > 0
        THEN add_comment(s2, "=== SKETCHES ===", <<>>, <<>>)
        ELSE s2)

-----------------------------------------------------------------------------
(* The actions of a translation run *)

\* indent is the indentation level when the item is taken up
LogEntry(op, idx, from, to, raised) ==
    [run |-> runs + 1, op |-> op, idx |-> idx, from |-> from, to |-> to, raised |-> raised,
     indent |-> indent_level]

\* an entry point creates the exporter of its run: KCLExporter(debug_planes=...)
Construct ==
    /\ pc \in {"done", "raised"}
    /\ runs < MaxRuns
    /\ SetSelf(NewExporter(debug_planes))
    /\ pc' = "idle"
    /\ UNCHANGED <<app, si, fi, runs, results, log, sort_in, sort_out,
                   messages, files>>

\* export_design is called: the prologue, and export_component up to the sketches
BeginExport ==
    /\ pc \in {"idle", "done", "raised"}
    /\ runs < MaxRuns
    /\ \E self \in {export_component_head(export_design_prologue(Self, app.design),
                                          app.design)} :
          /\ SetSelf(self)
          /\ log' = Append(log, LogEntry("begin", 0, 0, Len(self.kcl_content), FALSE))
    /\ pc' = "sketches"
    /\ si' = 1
    /\ fi' = 1
    /\ UNCHANGED <<app, runs, results, sort_in, sort_out,
                   messages, files>>

\* one iteration of the loop over component.sketches
ExportSketch ==
    /\ pc = "sketches"
    /\ si <= Len(app.design.sketches)
    /\ \E r \in {export_sketch(
                    debug_comment(Self, "Processing sketch {i+1}/{count}: {sketch.name}",
                                  <<app.design.sketches[si].name>>, <<si>>),
                    app.design.sketches[si])} :
          /\ SetSelf(r.self)
          /\ log' = Append(log, LogEntry("sketch", si, Len(kcl_content),
                                         Len(r.self.kcl_content), r.raised))
          /\ IF r.raised
             THEN pc' = "raised" /\ runs' = runs + 1 /\ si' = si
             ELSE pc' = pc /\ runs' = runs /\ si' = si + 1
    /\ UNCHANGED <<app, fi, results, sort_in, sort_out,
                   messages, files>>

\* the second loop entered while sketches are left
BeginFeaturesWithSketchesLeft ==
    /\ pc = "sketches"
    /\ \E self \in {IF Len(app.design.features) > 0
                    THEN add_comment(Self, "=== FEATURES ===", <<>>, <<>>)
                    ELSE Self} :
          /\ SetSelf(self)
          /\ log' = Append(log, LogEntry("features", 0, Len(kcl_content),
                                         Len(self.kcl_content), FALSE))
    /\ pc' = "features"
    /\ UNCHANGED <<app, si, fi, runs, results, sort_in, sort_out,
                   messages, files>>

\* the end of the first loop of export_component and the head of the second
BeginFeatures ==
    /\ pc = "sketches"
    /\ si > Len(app.design.sketches)
    /\ \E self \in {IF Len(app.design.features) > 0
                    THEN add_comment(Self, "=== FEATURES ===", <<>>, <<>>)
                    ELSE Self} :
          /\ SetSelf(self)
          /\ log' = Append(log, LogEntry("features", 0, Len(kcl_content),
                                         Len(self.kcl_content), FALSE))
    /\ pc' = "features"
    /\ UNCHANGED <<app, si, fi, runs, results, sort_in, sort_out,
                   messages, files>>

\* one iteration of the loop over component.features; the debug comment reads the
\* feature's name and type before export_feature does
ExportFeature ==
    /\ pc = "features"
    /\ fi <= Len(app.design.features)
    /\ LET feature == app.design.features[fi]
       IN  \E r \in {IF debug_planes /\ (feature.failName \/ feature.failType)
                     THEN Out(Self, None, TRUE)
                     ELSE export_feature(
                              debug_comment(Self,
                                  "Processing feature {i+1}/{count}: {feature.name} ({feature.objectType})",
                                  <<feature.name>>, <<fi>>),
                              feature)} :
              /\ SetSelf(r.self)
              /\ log' = Append(log, LogEntry("feature", fi, Len(kcl_content),
                                             Len(r.self.kcl_content), r.raised))
              /\ IF r.raised
                 THEN pc' = "raised" /\ runs' = runs + 1 /\ fi' = fi
                 ELSE pc' = pc /\ runs' = runs /\ fi' = fi + 1
    /\ UNCHANGED <<app, si, results, sort_in, sort_out,
                   messages, files>>

\* export_design returns "\n".join(self.kcl_content)
Return ==
    /\ pc = "features"
    /\ fi > Len(app.design.features)
    /\ results' = Append(results, [doc |-> kcl_content, debug |-> debug_planes])
    /\ pc' = "done"
    /\ runs' = runs + 1
    /\ UNCHANGED <<app, kcl_content, indent_level, debug_planes, body_to_feature_map,
                   feature_to_kcl_name, units, counter, current_sketch_plane,
                   current_profile_position, xz_flip_logged, si, fi, log, sort_in, sort_out,
                   messages, files>>

Next == Construct \/ BeginExport \/ ExportSketch \/ BeginFeatures \/ ExportFeature \/ Return

-----------------------------------------------------------------------------
(* The designs of the runs *)

N_Sketch == <<"S","k","e","t","c","h">>
N_Extrude == <<"E","x","t","r","u","d","e">>
N_Revolve == <<"R","e","v","o","l","v","e">>
N_Combine == <<"C","o","m","b","i","n","e">>
N_Fillet == <<"F","i","l","l","e","t">>
N_Design == <<"P","l","a","t","e"," ","v","1">>

\* the construction planes, a planar face, and a reference that cannot be read
PlaneXY == Plane("ConstructionPlane", "Plane", <<0, 0, 100>>, <<"X","Y">>, FALSE)
PlaneXZ == Plane("ConstructionPlane", "Plane", <<0, 100, 0>>, <<"X","Z">>, FALSE)
PlaneYZ == Plane("ConstructionPlane", "Plane", <<100, 0, 0>>, <<"Y","Z">>, FALSE)
FaceXZ == Plane("BRepFace", "Plane", <<0, -100, 0>>, <<"f","a","c","e">>, FALSE)

\* corner i of a convex polygon, raw
Corner(i) == <<1000 * i, 1000 * i * i>>

\* side i of the polygon of n corners; the even sides are drawn backwards
Side(i, n) ==
    IF i % 2 = 1 THEN Curve("line", Corner(i), Corner((i % n) + 1), "none")
    ELSE Curve("line", Corner((i % n) + 1), Corner(i), "none")

ACircle == Curve("circle", <<20000, 5000>>, <<20000, 5000>>, "none")

\* the closed polygon of n sides, listed from the last side to the first
Polygon(n) == [k \in 1..n |-> Side(n + 1 - k, n)]
\* the polygon without its closing side
OpenChain(n) == [k \in 1..(n - 1) |-> Side(k, n)]

Unreadable(curve) == [curve EXCEPT !.fail = "points"]
BadGeometry(curve) == [curve EXCEPT !.fail = "geometry"]

CurveLists ==
    {<<>>,
     Polygon(MaxCurves),
     OpenChain(MaxCurves),
     <<ACircle>>,
     Append(Polygon(MaxCurves - 1), ACircle),
     <<Side(1, MaxCurves), Side(3, MaxCurves)>>,
     <<Side(1, MaxCurves), Unreadable(Side(2, MaxCurves)), Side(3, MaxCurves)>>,
     <<Side(1, MaxCurves),
       BadGeometry(Curve("arc", Corner(2), Corner(3), "none")),
       Side(3, MaxCurves)>>}

\* the sketches a component may hold at position i: the name is the host's default;
\* the first two positions take every plane and curve list, a later one a closed
\* profile or a circle on XY
SketchesAt(i) ==
    IF i <= 2
    THEN {Sketch(N_Sketch \o str_of(i), PlaneXY, curves) : curves \in CurveLists}
         \cup {Sketch(N_Sketch \o str_of(i), PlaneXZ, curves) :
                  curves \in {Polygon(MaxCurves), <<ACircle>>}}
         \cup {Sketch(N_Sketch \o str_of(i), plane, Polygon(MaxCurves)) :
                  plane \in {PlaneYZ, FaceXZ}}
    ELSE {Sketch(N_Sketch \o str_of(i), PlaneXY, curves) :
             curves \in {Polygon(MaxCurves), <<ACircle>>}}

RECURSIVE SketchListsOfLen(_)
SketchListsOfLen(n) ==
    IF n = 0 THEN {<<>>}
    ELSE {Append(q, sketch) : q \in SketchListsOfLen(n - 1), sketch \in SketchesAt(n)}

SketchLists == UNION {SketchListsOfLen(n) : n \in 0..MaxSketches}

Tokens == <<"t1", "t2", "t3", "t4", "t5", "t6", "t7", "t8", "t9", "t10">>
Token(i) == Tokens[i]

\* feature number i of the timeline: the name is the host's default
Extrude(i, parentSketch, value, bodies) ==
    [Feature("ExtrudeFeature", N_Extrude \o str_of(i), Token(i))
        EXCEPT !.parentSketch = parentSketch, !.value = value, !.bodies = bodies]

Revolve(i, parentSketch) ==
    [Feature("RevolveFeature", N_Revolve \o str_of(i), Token(i))
        EXCEPT !.parentSketch = parentSketch, !.extent = "FullSweep"]

Combine(i, operation, targetBody, toolBodies) ==
    [Feature("CombineFeature", N_Combine \o str_of(i), Token(i))
        EXCEPT !.operation = operation, !.targetBody = targetBody, !.toolBodies = toolBodies]

B1 == "b1"
B2 == "b2"
B3 == "b3"

\* the features of a timeline over two sketches, the first on XY, the second on XZ:
\* extrudes of a sketch profile, an extrude of a face (no parent sketch), extrudes
\* with a failing query, a revolve, and Cut combines with and without body references
FeatureSet ==
    {Extrude(1, 1, 5000, <<B1>>),
     Extrude(2, 2, 3000, <<B2>>),
     Extrude(3, 0, 4000, <<B3>>),
     [Extrude(4, 1, 5000, <<>>) EXCEPT !.failName = TRUE],
     [Extrude(5, 1, 5000, <<>>) EXCEPT !.failExtent = TRUE],
     Revolve(6, 1),
     Combine(7, "Cut", B1, <<B2>>),
     Combine(8, "Cut", NoToken, <<>>)}

\* timelines with a feature of another kind and with a feature whose kind cannot be read
OtherTimelines ==
    {<<Feature("FilletFeature", N_Fillet \o str_of(9), Token(9)), Extrude(1, 1, 5000, <<B1>>)>>,
     <<[Feature("ExtrudeFeature", N_Extrude \o str_of(10), Token(10))
           EXCEPT !.failType = TRUE],
       Extrude(1, 1, 5000, <<B1>>)>>}

\* the features a timeline may hold at position n: any of them at the first three
\* positions, a combine at a later one
FeaturesAt(n) ==
    IF n <= 3 THEN FeatureSet
    ELSE {feature \in FeatureSet : feature.objectType = "CombineFeature"}

\* the timelines: no feature twice
RECURSIVE FeatureListsOfLen(_)
FeatureListsOfLen(n) ==
    IF n = 0 THEN {<<>>}
    ELSE UNION {{Append(q, feature) : feature \in FeaturesAt(n) \ {q[i] : i \in DOMAIN q}} :
                   q \in FeatureListsOfLen(n - 1)}

FeatureLists == UNION {FeatureListsOfLen(n) : n \in 0..MaxFeatures} \cup OtherTimelines

ComponentBodies ==
    <<Body(B1, Token(1)), Body(B2, Token(2)), Body(B3, Token(3))>>

\* the features of a design whose sketches vary: an extrude of the last sketch and
\* a revolve of the first
FeaturesOver(sketches) ==
    IF Len(sketches) = 0 THEN <<>>
    ELSE <<Extrude(1, Len(sketches), -2500, <<B1>>), Revolve(2, 1)>>

SketchDesigns ==
    {Design(N_Design, <<>>, sketches, FeaturesOver(sketches), ComponentBodies) :
        sketches \in SketchLists}

TwoSketches ==
    <<Sketch(N_Sketch \o str_of(1), PlaneXY, Polygon(MaxCurves)),
      Sketch(N_Sketch \o str_of(2), PlaneXZ, <<ACircle>>)>>

FeatureDesigns ==
    {Design(N_Design, <<>>, TwoSketches, features, ComponentBodies) :
        features \in FeatureLists}

N_width == <<"p","l","a","t","e"," ","w","i","d","t","h">>
N_d1 == <<"d","1">>

ParameterDesign ==
    Design(N_Design,
           <<Parameter(N_width, 25400, "mm", TRUE), Parameter(N_d1, 5000, "mm", FALSE),
             [Parameter(N_d1, 3, "", TRUE) EXCEPT !.fail = TRUE]>>,
           <<Sketch(N_Sketch \o str_of(1), PlaneXZ, Polygon(MaxCurves))>>,
           <<Extrude(1, 1, 12700, <<B1>>)>>, ComponentBodies)

UnitHosts ==
    {Host("Design", enum, string, convertFails, design) :
        enum \in {"in", "other", "raise"}, string \in {"mm", "in", "raise"},
        convertFails \in BOOLEAN,
        design \in {ParameterDesign, [ParameterDesign EXCEPT !.failParameters = TRUE]}}
    \cup {Host("None", "mm", "mm", FALSE, ParameterDesign)}

\* designs whose sketches vary, and hosts whose unit settings vary
SketchHosts ==
    {Host("Design", "mm", "mm", FALSE, design) : design \in SketchDesigns} \cup UnitHosts

\* designs whose timeline varies
FeatureHosts == {Host("Design", "mm", "mm", FALSE, design) : design \in FeatureDesigns}

\* an entry point has created its exporter
InitOver(hosts) ==
    /\ app \in hosts
    /\ \E debug \in BOOLEAN : SelfIs(NewExporter(debug))
    /\ pc = "idle"
    /\ si = 1 /\ fi = 1 /\ runs = 0
    /\ results = <<>>
    /\ log = <<>>
    /\ sort_in = <<>>
    /\ sort_out = None
    /\ messages = <<>>
    /\ files = <<>>

Init == InitOver(SketchHosts)

Spec == Init /\ [][Next]_vars

InitFeatures == InitOver(FeatureHosts)

SpecFeatures == InitFeatures /\ [][Next]_vars

\* the unit square: 1 cm a side in raw units, side i from corner i to the next corner
SquareCorners == <<<<0, 0>>, <<10000, 0>>, <<10000, 10000>>, <<0, 10000>>>>

\* side i of the square, drawn along the boundary or against it
SquareSide(i, forward) ==
    IF forward THEN Curve("line", SquareCorners[i], SquareCorners[(i % 4) + 1], "none")
    ELSE Curve("line", SquareCorners[(i % 4) + 1], SquareCorners[i], "none")

\* the four sides in every input order, each side drawn in either direction
SquareSketches ==
    {Sketch(N_Sketch \o str_of(1), PlaneXY,
            [k \in 1..4 |-> SquareSide(order[k], forward[order[k]])]) :
        order \in {f \in [1..4 -> 1..4] : \A i, j \in 1..4 : i # j => f[i] # f[j]},
        forward \in [1..4 -> BOOLEAN]}

\* a square sketch and one extrude of 10 cm, on a host whose display unit is the raw unit
SquareHosts ==
    {Host("Design", "cm", "cm", FALSE,
          Design(N_Design, <<>>, <<sketch>>, <<Extrude(1, 1, 100000, <<B1>>)>>,
                 ComponentBodies)) :
        sketch \in SquareSketches}

InitSquare == InitOver(SquareHosts)
SpecSquare == InitSquare /\ [][Next]_vars

N_Join == <<"J","o","i","n">>
N_Cut == <<"C","u","t">>
N_Intersect == <<"I","n","t","e","r","s","e","c","t">>

\* combines of every operation the host may report, one that cannot be read and one
\* outside the three, under the host's default name and under names that tell the kind
CombineSet ==
    {[Combine(3, operation, B1, <<B2>>) EXCEPT !.name = name \o str_of(1)] :
        operation \in {"Join", "Cut", "Intersect", "raise", "NewBody"},
        name \in {N_Combine, N_Join, N_Cut, N_Intersect}}

\* two extrudes and one combine
CombineHosts ==
    {Host("Design", "mm", "mm", FALSE,
          Design(N_Design, <<>>, TwoSketches,
                 <<Extrude(1, 1, 5000, <<B1>>), Extrude(2, 2, 3000, <<B2>>), combine>>,
                 ComponentBodies)) :
        combine \in CombineSet}

\* extrudes of every extent kind, on the XY sketch and on the XZ sketch, the distance
\* of the extent readable or not
ExtentSet ==
    {[Extrude(1, parentSketch, 7000, <<B1>>)
         EXCEPT !.extent = extent, !.failExtent = failExtent] :
        extent \in {"Distance", "ThroughAll", "ToEntity", "Symmetric", "TwoSides", "Other"},
        parentSketch \in {1, 2},
        failExtent \in BOOLEAN}

\* one extrude, and a second extrude after it
ExtentHosts ==
    {Host("Design", "mm", "mm", FALSE,
          Design(N_Design, <<>>, TwoSketches, <<extrude, Extrude(2, 2, 3000, <<B2>>)>>,
                 ComponentBodies)) :
        extrude \in ExtentSet}

\* designs whose features vary in kind: of operation, of extent
InitKinds == InitOver(CombineHosts \cup ExtentHosts)
SpecKinds == InitKinds /\ [][Next]_vars

-----------------------------------------------------------------------------
(* The designs that vary what the Lineage Tracker is given *)

\* the bodies of the component: none, one, several; created by the first
\* extrude, by the second, or by a feature that cannot be told
LineageBodies ==
    {<<>>,
     <<Body(B1, Token(1))>>,
     <<Body(B2, NoToken)>>,
     <<Body(B1, Token(1)), Body(B2, Token(2))>>,
     <<Body(B1, Token(2)), Body(B2, Token(1))>>,
     <<Body(B1, NoToken), Body(B2, NoToken)>>,
     <<Body(B1, Token(1)), Body(B2, Token(1)), Body(B3, NoToken)>>}

\* extrude i of sketch i: the bodies it reports, and whether reading them raises
LineageExtrudes(i) ==
    {[Extrude(i, i, 5000, bodies) EXCEPT !.failBodies = failBodies] :
        bodies \in {<<>>, <<B1>>, <<B3>>, <<B1, B3>>}, failBodies \in BOOLEAN}

LineageHosts ==
    {Host("Design", "mm", "mm", FALSE,
          Design(N_Design, <<>>, TwoSketches, features, bodies)) :
        features \in {<<e>> : e \in LineageExtrudes(1)}
                     \cup {<<e, f>> : e \in LineageExtrudes(1), f \in LineageExtrudes(2)},
        bodies \in LineageBodies}

InitLineage == InitOver(LineageHosts)
SpecLineage == InitLineage /\ [][Next]_vars

-----------------------------------------------------------------------------
(* The designs with several combines *)

\* a combine without body references
PlainCombine(i, operation) == Combine(i, operation, NoToken, <<>>)

\* two or three extrudes of a sketch profile, then one or two combines
CombineChains ==
    {extrudes \o combines :
        extrudes \in {<<Extrude(1, 1, 5000, <<B1>>), Extrude(2, 2, 3000, <<B2>>)>>,
                      <<Extrude(1, 1, 5000, <<B1>>), Extrude(2, 2, 3000, <<B2>>),
                        Extrude(3, 1, 4000, <<B3>>)>>},
        combines \in {<<PlainCombine(7, a)>> : a \in {"Cut", "Join"}}
                     \cup {<<PlainCombine(7, a), PlainCombine(8, b)>> :
                              a \in {"Cut", "Join"}, b \in {"Cut", "Join"}}}

ChainHosts ==
    {Host("Design", "mm", "mm", FALSE,
          Design(N_Design, <<>>, TwoSketches, features, ComponentBodies)) :
        features \in CombineChains}

InitChains == InitOver(ChainHosts)
SpecChains == InitChains /\ [][Next]_vars

-----------------------------------------------------------------------------
(* The designs that vary the names of the sketches *)

\* names that differ in spacing, punctuation or case only, a second plain name, and
\* a name of the form the exporter generates for an extrude
SketchNames ==
    {N_Sketch \o str_of(1), N_Sketch \o <<" ">> \o str_of(1),
     N_Sketch \o <<"-">> \o str_of(1), W_sketch \o str_of(1),
     N_Sketch \o str_of(2), W_extrude \o str_of(1)}

\* two sketches of distinct names, an extrude of the first, a revolve or an extrude
\* of the second, and a combine
NamedDesigns ==
    {Design(N_Design, <<>>,
            <<Sketch(names[1], PlaneXY, Polygon(MaxCurves)),
              Sketch(names[2], PlaneXZ, <<ACircle>>)>>,
            <<Extrude(1, 1, 5000, <<B1>>), second, PlainCombine(7, "Cut")>>,
            ComponentBodies) :
        names \in {n \in SketchNames \X SketchNames : n[1] # n[2]},
        second \in {Extrude(2, 2, 3000, <<B2>>), Revolve(2, 2)}}

NamedHosts == {Host("Design", "mm", "mm", FALSE, design) : design \in NamedDesigns}

InitNamed == InitOver(NamedHosts)
SpecNamed == InitNamed /\ [][Next]_vars

-----------------------------------------------------------------------------
(* sort_curves_by_connectivity called on its own, on an exporter in the    *)
(* state export_sketch leaves before it exports the curves                 *)

GridX == {0, 4}
GridY == {0, 20}
GridPoints == {<<x, y>> : x \in GridX, y \in GridY}

SortCurveSet ==
    {Curve("line", pq[1], pq[2], "none") :
        pq \in {e \in GridPoints \X GridPoints : e[1] # e[2]}}
    \cup {Curve("circle", <<0, 20>>, <<0, 20>>, "none"),
          Curve("line", <<0, 0>>, <<4, 0>>, "points")}

\* no two lines of the input join the same two points, and no curve is given twice
DistinctCurves(s) ==
    \A i, j \in DOMAIN s :
        i # j => /\ s[i] # s[j]
                 /\ (s[i].type = "line" /\ s[j].type = "line")
                        => {s[i].start, s[i].end} # {s[j].start, s[j].end}

SortInputs ==
    UNION {{s \in [1..n -> SortCurveSet] : DistinctCurves(s)} : n \in 1..MaxCurves}

InitSort ==
    /\ app \in {Host("Design", "mm", u, FALSE, EmptyDesign) : u \in {"mm", "cm"}}
    /\ \E plane \in {"XY", "XZ"} :
          SelfIs([NewExporter(FALSE) EXCEPT !.current_sketch_plane = plane])
    /\ pc = "sort"
    /\ si = 1 /\ fi = 1 /\ runs = 0
    /\ results = <<>>
    /\ log = <<>>
    /\ sort_in \in SortInputs
    /\ sort_out = None
    /\ messages = <<>>
    /\ files = <<>>

SortCall ==
    /\ pc = "sort"
    /\ \E r \in {sort_curves_by_connectivity(Self, sort_in)} :
           /\ SetSelf(r.self)
           /\ sort_out' = r.val
    /\ pc' = "sorted"
    /\ UNCHANGED <<app, si, fi, runs, results, log, sort_in, messages, files>>

NextSort == SortCall

SpecSort == InitSort /\ [][NextSort]_vars

-----------------------------------------------------------------------------
(* export_design as one call *)

RECURSIVE export_sketches_from(_, _, _)
\* the first loop of export_component from sketch i on; an exception ends it
export_sketches_from(self, component, i) ==
    IF i > Len(component.sketches)
    THEN Out(self, None, FALSE)
    ELSE Let(export_sketch(
                 debug_comment(self, "Processing sketch {i+1}/{count}: {sketch.name}",
                               <<component.sketches[i].name>>, <<i>>),
                 component.sketches[i]),
             LAMBDA r :
             IF r.raised THEN r ELSE export_sketches_from(r.self, component, i + 1))

\* one iteration of the second loop of export_component
export_feature_at(self, component, i) ==
    IF self.debug_planes /\ (component.features[i].failName \/ component.features[i].failType)
    THEN Out(self, None, TRUE)
    ELSE export_feature(
             debug_comment(self,
                 "Processing feature {i+1}/{count}: {feature.name} ({feature.objectType})",
                 <<component.features[i].name>>, <<i>>),
             component.features[i])

RECURSIVE export_features_from(_, _, _)
\* the second loop of export_component from feature i on; an exception ends it
export_features_from(self, component, i) ==
    IF i > Len(component.features)
    THEN Out(self, None, FALSE)
    ELSE Let(export_feature_at(self, component, i),
             LAMBDA r :
             IF r.raised THEN r ELSE export_features_from(r.self, component, i + 1))

export_component(self, component) ==
    Let(export_sketches_from(export_component_head(self, component), component, 1),
        LAMBDA r :
        IF r.raised
        THEN r
        ELSE export_features_from(
                 IF Len(component.features) > 0
                 THEN add_comment(r.self, "=== FEATURES ===", <<>>, <<>>)
                 ELSE r.self,
                 component, 1))

\* a product that is not a design has no rootComponent: reading it raises
export_design(self, design) ==
    Let(export_design_prologue(self, design),
        LAMBDA s2 :
        IF "component" \notin DOMAIN design
        THEN Out(s2, None, TRUE)
        ELSE Let(export_component(s2, design),
                 LAMBDA r : Out(r.self, r.self.kcl_content, r.raised)))

-----------------------------------------------------------------------------
(* The entry points *)

(* What a handler did: exporter is the exporter it created last (None when *)
(* it created none), calls the number of export_design calls it made,      *)
(* lines the number of lines those calls put into kcl_content, raised      *)
(* whether one of them raised, messages the ui.messageBox texts it showed  *)
(* and files the documents it wrote.                                       *)
Handled_(exporter, calls, lines, raised, msgs, docs) ==
    [exporter |-> exporter, calls |-> calls, lines |-> lines, raised |-> raised,
     messages |-> msgs, files |-> docs]

Message(tag, detail) == [tag |-> tag, detail |-> detail]

\* after one export_design call that the handler made on a new exporter
AfterExport(r, msgs, docs) ==
    Handled_(<<r.self>>, 1, Len(r.self.kcl_content), r.raised, msgs, docs)

\* run of the script
run ==
    IF app.activeProduct = "None"
    THEN Handled_(None, 0, 0, FALSE, <<Message("No active design found.", "")>>, <<>>)
    ELSE IF app.activeProduct # "Design"
    THEN Handled_(None, 0, 0, FALSE,
                  <<Message("Active product is not a Fusion 360 design.", "")>>, <<>>)
    ELSE Let(export_design(NewExporter(TRUE), app.design),
             LAMBDA r :
             IF r.raised
             THEN AfterExport(r, <<Message("Export failed. Check the Text Commands window for details.\n\nError: {e}", "")>>, <<>>)
             ELSE IF app.dialogOK
             THEN AfterExport(r, <<Message("Successfully exported to KCL:\n{filename}", "")>>,
                              <<r.val>>)
             ELSE AfterExport(r, <<Message("Export cancelled.", "")>>, <<>>))

\* command_execute of the export command
command_execute ==
    IF app.activeProduct = "None"
    THEN Handled_(None, 0, 0, FALSE, <<Message("No active design found.", "")>>, <<>>)
    ELSE Let(export_design(NewExporter(FALSE), app.design),
             LAMBDA r :
             IF r.raised
             THEN AfterExport(r, <<Message("Error exporting to KCL: {e}", "")>>, <<>>)
             ELSE AfterExport(r, <<Message("Successfully exported to KCL: {output_path}", "")>>,
                              <<r.val>>))

\* the files of the project folder that batch_export_to_kcl will export
design_files_of(folder) == SelectSeq(folder, LAMBDA f : f.f3d /\ ~f.active)

\* one iteration of the loop over design_files, h what the loop did so far,
\* last_error the first error stored
batch_file(h, last_error, file) ==
    IF file.product = "None"
    THEN [h |-> h,
          last_error |-> IF last_error = "" THEN "No active product after opening design file"
                         ELSE last_error]
    ELSE IF file.product # "Design"
    THEN [h |-> h,
          last_error |-> IF last_error = "" THEN "Opened file is not a design: {objectType}"
                         ELSE last_error]
    ELSE Let(export_design(NewExporter(TRUE), file.design),
             LAMBDA r :
             [h |-> Handled_(<<r.self>>, h.calls + 1, h.lines + Len(r.self.kcl_content),
                             h.raised \/ r.raised, <<>>,
                             IF r.raised THEN h.files ELSE Append(h.files, r.val)),
              last_error |-> IF r.raised /\ last_error = "" THEN "{file_error}"
                             ELSE last_error])

RECURSIVE batch_files_from(_, _, _, _)
batch_files_from(h, last_error, design_files, i) ==
    IF i > Len(design_files)
    THEN [h |-> h, last_error |-> last_error]
    ELSE Let(batch_file(h, last_error, design_files[i]),
             LAMBDA r : batch_files_from(r.h, r.last_error, design_files, i + 1))

\* return value successful, and the error stored in last_error ("" when none);
\* the opened designs have the unit settings of the active one
batch_export_to_kcl ==
    IF app.activeProduct = "None"
    THEN [h |-> Handled_(None, 0, 0, FALSE, <<>>, <<>>),
          last_error |-> "Batch export error: No active design found. Please open a design file first."]
    ELSE IF app.activeProduct # "Design"
    THEN [h |-> Handled_(None, 0, 0, FALSE, <<>>, <<>>),
          last_error |-> "Batch export error: Active product is not a Fusion 360 design."]
    ELSE IF ~app.dataFile
    THEN [h |-> Handled_(None, 0, 0, FALSE, <<>>, <<>>),
          last_error |-> "Batch export error: Active design document does not have an associated data file. Please save the design first."]
    ELSE IF Len(design_files_of(app.folder)) = 0
    THEN [h |-> Handled_(None, 0, 0, FALSE, <<>>, <<>>),
          last_error |-> "Batch export error: No other design files found in the same project folder as the active design."]
    ELSE batch_files_from(Handled_(None, 0, 0, FALSE, <<>>, <<>>), "",
                          design_files_of(app.folder), 1)

\* command_execute of the batch command, with get_batch_error_summary
batch_command_execute ==
    Let(batch_export_to_kcl,
        LAMBDA b :
        IF Len(b.h.files) > 0
        THEN [b.h EXCEPT !.messages =
                 <<Message("Successfully exported {successful_count} files to: {output_folder}", "")>>]
        ELSE [b.h EXCEPT !.messages =
                 <<Message("No files were successfully exported.\n\n{error_details}",
                           b.last_error)>>])

\* a handler ran to its end
HandlerRan(op, h) ==
    /\ pc \in {"entry", "handled"}
    /\ runs < MaxRuns
    /\ SetSelf(IF h.exporter = None THEN Self ELSE h.exporter[1])
    /\ messages' = messages \o h.messages
    /\ files' = files \o h.files
    /\ log' = Append(log, [run |-> runs + 1, op |-> op, calls |-> h.calls,
                           lines |-> h.lines, raised |-> h.raised,
                           messages |-> h.messages, files |-> Len(h.files)])
    /\ runs' = runs + 1
    /\ pc' = "handled"
    /\ UNCHANGED <<app, si, fi, results, sort_in, sort_out>>

Run == \E h \in {run} : HandlerRan("run", h)

CommandExecute == \E h \in {command_execute} : HandlerRan("command_execute", h)

BatchCommandExecute == \E h \in {batch_command_execute} : HandlerRan("batch", h)

NextEntry == Run \/ CommandExecute \/ BatchCommandExecute

\* a product that is not a design
NonDesign(name) == [name |-> name, parameters |-> <<>>, failParameters |-> TRUE]

DataFile(f3d, active, product, design) ==
    [f3d |-> f3d, active |-> active, product |-> product, design |-> design]

EntryHost(activeProduct, design, dialogOK, dataFile, folder) ==
    [activeProduct |-> activeProduct, distanceDisplayUnits |-> "mm",
     defaultLengthUnits |-> "mm", convertFails |-> FALSE, design |-> design,
     dialogOK |-> dialogOK, dataFile |-> dataFile, folder |-> folder]

\* a design of the project folder; a feature's references are resolved in the
\* active design, so the designs of the folder have sketches only
FolderDesign ==
    Design(N_Design, <<>>, <<Sketch(N_Sketch \o str_of(1), PlaneXY, Polygon(MaxCurves))>>,
           <<>>, <<>>)

EntryFiles ==
    {DataFile(TRUE, TRUE, "Design", FolderDesign),
     DataFile(TRUE, FALSE, "Design", FolderDesign),
     DataFile(TRUE, FALSE, "Design", EmptyDesign),
     DataFile(TRUE, FALSE, "None", EmptyDesign),
     DataFile(FALSE, FALSE, "Design", EmptyDesign)}

EntryFolders == {<<>>} \cup {<<f>> : f \in EntryFiles} \cup {<<f, g>> : f, g \in EntryFiles}

EntryHosts ==
    {EntryHost(product[1], product[2], dialogOK, dataFile, folder) :
        product \in {<<"None", EmptyDesign>>, <<"CAM", NonDesign(N_Design)>>,
                     <<"Design", ParameterDesign>>, <<"Design", EmptyDesign>>},
        dialogOK \in BOOLEAN, dataFile \in BOOLEAN, folder \in EntryFolders}

\* no handler has run; the exporter variables hold the fields of the exporter
\* created last, those of a new one before there is any
InitEntry ==
    /\ app \in EntryHosts
    /\ SelfIs(NewExporter(FALSE))
    /\ pc = "entry"
    /\ si = 1 /\ fi = 1 /\ runs = 0
    /\ results = <<>>
    /\ log = <<>>
    /\ sort_in = <<>>
    /\ sort_out = None
    /\ messages = <<>>
    /\ files = <<>>

SpecEntry == InitEntry /\ [][NextEntry]_vars

-----------------------------------------------------------------------------
(* get_safe_name called on its own *)

MaxName == 4

\* a lower-case letter, an upper-case letter, a digit and two separators
NameChars == {"a", "B", "7", " ", "_"}

Names == UNION {[1..n -> NameChars] : n \in 0..MaxName}

InitName ==
    /\ app \in {Host("Design", "mm", "mm", FALSE, EmptyDesign)}
    /\ SelfIs(NewExporter(FALSE))
    /\ pc = "name"
    /\ si = 1 /\ fi = 1 /\ runs = 0
    /\ results = <<>>
    /\ log = <<>>
    /\ sort_in \in Names
    /\ sort_out = None
    /\ messages = <<>>
    /\ files = <<>>

SafeNameCall ==
    /\ pc = "name"
    /\ sort_out' = get_safe_name(sort_in)
    /\ pc' = "named"
    /\ UNCHANGED <<app, kcl_content, indent_level, debug_planes, body_to_feature_map,
                   feature_to_kcl_name, units, counter, current_sketch_plane,
                   current_profile_position, xz_flip_logged, si, fi, runs, results, log,
                   sort_in, messages, files>>

NextName == SafeNameCall

SpecName == InitName /\ [][NextName]_vars

-----------------------------------------------------------------------------
(* get_plane_name called on its own: on a planar reference, then on the    *)
(* same reference with the opposite normal                                 *)

\* components of a normal, in hundredths
NormalParts == {0, 14, 41, 44, 57, 58, 70, 90, 91, 100,
                -14, -41, -44, -57, -58, -70, -90, -91, -100}

\* the normals of unit length, up to rounding
UnitNormals ==
    {n \in NormalParts \X NormalParts \X NormalParts :
        n[1] * n[1] + n[2] * n[2] + n[3] * n[3] \in 9900..10100}

PlanarReferences ==
    {Plane(objectType, "Plane", n, <<"f","a","c","e">>, FALSE) :
        objectType \in {"BRepFace", "ConstructionPlane"}, n \in UnitNormals}

Opposite(plane) ==
    [plane EXCEPT !.normal = <<-plane.normal[1], -plane.normal[2], -plane.normal[3]>>]

InitPlane ==
    /\ app \in {Host("Design", "mm", "mm", FALSE, EmptyDesign)}
    /\ \E debug \in BOOLEAN : SelfIs(NewExporter(debug))
    /\ pc = "plane"
    /\ si = 1 /\ fi = 1 /\ runs = 0
    /\ results = <<>>
    /\ log = <<>>
    /\ sort_in \in PlanarReferences
    /\ sort_out = <<>>
    /\ messages = <<>>
    /\ files = <<>>

\* get_plane_name(plane); sort_out collects the answers
PlaneCall ==
    /\ pc = "plane"
    /\ \E r \in {get_plane_name(Self, sort_in)} :
          /\ SetSelf(r.self)
          /\ sort_out' = Append(sort_out, r.val)
    /\ pc' = "named"
    /\ UNCHANGED <<app, si, fi, runs, results, log, sort_in, messages, files>>

\* get_plane_name on the reference with the opposite normal
OppositePlaneCall ==
    /\ pc = "named"
    /\ Len(sort_out) = 1
    /\ \E r \in {get_plane_name(Self, Opposite(sort_in))} :
          /\ SetSelf(r.self)
          /\ sort_out' = Append(sort_out, r.val)
    /\ pc' = "opposite"
    /\ UNCHANGED <<app, si, fi, runs, results, log, sort_in, messages, files>>

NextPlane == PlaneCall \/ OppositePlaneCall

SpecPlane == InitPlane /\ [][NextPlane]_vars

-----------------------------------------------------------------------------
(* Properties of the Curve Graph Stitcher *)

EndPointsOf(c) == {c[i].start : i \in DOMAIN c} \cup {c[i].end : i \in DOMAIN c}

Incident(c, p) == Cardinality({i \in DOMAIN c : c[i].start = p})
                  + Cardinality({i \in DOMAIN c : c[i].end = p})

RECURSIVE Reach(_, _)
Reach(c, S) ==
    LET T == S \cup {c[i].end : i \in {j \in DOMAIN c : c[j].start \in S}}
                \cup {c[i].start : i \in {j \in DOMAIN c : c[j].end \in S}}
    IN  IF T = S THEN S ELSE Reach(c, T)

\* the curves are the edges of one closed polygon: lines, each vertex on exactly two
\* edges, no two edges between the same two vertices, one cycle; each edge stored in
\* either direction
IsClosedPolygon(c) ==
    /\ Len(c) >= 3
    /\ \A i \in DOMAIN c : c[i].type = "line" /\ c[i].fail = "none" /\ c[i].start # c[i].end
    /\ \A i, j \in DOMAIN c :
          i # j => {c[i].start, c[i].end} # {c[j].start, c[j].end}
    /\ \A p \in EndPointsOf(c) : Incident(c, p) = 2
    /\ Reach(c, {c[1].start}) = EndPointsOf(c)

LexLeq(p, q) == p[1] < q[1] \/ (p[1] = q[1] /\ p[2] <= q[2])

ConvertedStart(curve) == convert_point_2d(Self, get_curve_start_point(curve)).val

\* the point where the k-th curve of the order is entered and left, o[k] telling
\* whether it is traversed in reverse
EntryPoint(c, order, o, k) == IF o[k] THEN c[order[k]].end ELSE c[order[k]].start
ExitPoint(c, order, o, k) == IF o[k] THEN c[order[k]].start ELSE c[order[k]].end

ChainConnected(c, order) ==
    /\ Len(order) = Len(c)
    /\ \E o \in [1..Len(order) -> BOOLEAN] :
          /\ ~o[1]
          /\ \A k \in 1..(Len(order) - 1) :
                points_are_close(ExitPoint(c, order, o, k), EntryPoint(c, order, o, k + 1))

\* C1: for the edges of a closed polygon in any input order, the returned sequence
\* starts with a curve whose converted start point is lexicographically smallest
\* (x, then y) and consecutive curves share the endpoint where one is left and the
\* next is entered
C1_StitchedPolygon ==
    (pc = "sorted" /\ IsClosedPolygon(sort_in)) =>
        /\ \A j \in DOMAIN sort_in :
              LexLeq(ConvertedStart(sort_in[sort_out[1]]), ConvertedStart(sort_in[j]))
        /\ ChainConnected(sort_in, sort_out)

\* a four-edge polygon given out of chain order with an edge stored against the
\* direction of travel has been stitched
C1_Witness ==
    /\ pc = "sorted"
    /\ IsClosedPolygon(sort_in)
    /\ Len(sort_in) = 4
    /\ sort_out # Indices(4)
    /\ \E i \in DOMAIN sort_in : \E j \in DOMAIN sort_in :
          i # j /\ sort_in[i].end = sort_in[j].end

-----------------------------------------------------------------------------
(* Properties of the translation runs *)

\* the run whose lines kcl_content holds
CurrentRun == IF pc \in {"done", "raised"} THEN runs ELSE runs + 1

\* the positions in the log of the items of the current run handled by op
Handled(op) == {k \in DOMAIN log : log[k].run = CurrentRun /\ log[k].op = op}

\* the lines emitted while the item logged at k was handled
BlockOf(k) == SubSeq(kcl_content, log[k].from + 1, log[k].to)

SketchAt(k) == app.design.sketches[log[k].idx]
FeatureAt(k) == app.design.features[log[k].idx]

ExtrudeTag == "{extrude_var_name} = {sketch_name} |> extrude(length = {adjusted_distance})"
ExtrudeFallbackTag == "extrude{id} = sketch |> extrude(length = {distance})"
RevolveTag == "revolve{id} = {sketch_name} |> revolve(axis = Y, angle = {angle})"
SubtractTag == "{solid_var_name} = {operation_name}({target_kcl_name}, tools = {tool_kcl_name})"
BooleanTag == "{solid_var_name} = {operation_name}({target_kcl_name}, {tool_kcl_name})"
CloseTag == "|> close(%)"
CircleTag == "  |> circle(center = [{center_x}, {center_y}], diameter = {diameter_value}, %)"

IsStatement(line, tags) == ~line.cmt /\ line.tag \in tags

\* the body of the component with the token, as the host hands it to the tracker
BodyOfToken(token) ==
    IF \E i \in DOMAIN app.design.bodies : app.design.bodies[i].entityToken = token
    THEN app.design.bodies[CHOOSE i \in DOMAIN app.design.bodies :
                               app.design.bodies[i].entityToken = token]
    ELSE Body(token, NoToken)

\* the variable the Lineage Tracker maps the body to, None when it maps it to none
LineageName(token) == find_kcl_name_for_body(Self, BodyOfToken(token)).val

MappedInLineage(token) == token # NoToken /\ LineageName(token) # None

\* C2: a Combine whose target body and tool body the host reports and the Lineage
\* Tracker maps emits a boolean statement whose target and tool operands are the
\* variables the tracker maps those bodies to
C2_CombineOperandsFromLineage ==
    \A k \in Handled("feature") :
        (/\ k = Len(log)
         /\ ~log[k].raised
         /\ FeatureAt(k).objectType = "CombineFeature"
         /\ MappedInLineage(FeatureAt(k).targetBody)
         /\ Len(FeatureAt(k).toolBodies) = 1
         /\ MappedInLineage(FeatureAt(k).toolBodies[1]))
        => \E j \in DOMAIN BlockOf(k) :
              /\ IsStatement(BlockOf(k)[j], {SubtractTag, BooleanTag})
              /\ BlockOf(k)[j].strs[3] = LineageName(FeatureAt(k).targetBody)
              /\ BlockOf(k)[j].strs[4] = LineageName(FeatureAt(k).toolBodies[1])

\* a feature whose translation needs no host query that fails
Healthy(feature) ==
    ~feature.failType /\ ~feature.failName /\ ~feature.failExtent /\ ~feature.failToken

\* two Extrude features followed by one Cut Combine without body references
IsScenarioC ==
    LET features == app.design.features
    IN  /\ Len(features) = 3
        /\ \A i \in 1..3 : Healthy(features[i])
        /\ features[1].objectType = "ExtrudeFeature"
        /\ features[2].objectType = "ExtrudeFeature"
        /\ features[3].objectType = "CombineFeature"
        /\ features[3].operation = "Cut"
        /\ features[3].targetBody = NoToken
        /\ features[3].toolBodies = <<>>

ExtrudeStatements ==
    SelectSeq(kcl_content, LAMBDA line : IsStatement(line, {ExtrudeTag, ExtrudeFallbackTag}))

\* C3: the document of two Extrudes followed by a Cut Combine without body references
\* holds subtract(<first extrude variable>, tools = <second extrude variable>), the
\* operands being the variables the two extrude statements of the run define
C3_ScenarioC ==
    (IsScenarioC /\ pc = "done") =>
        /\ Len(ExtrudeStatements) = 2
        /\ \E j \in DOMAIN kcl_content :
              /\ IsStatement(kcl_content[j], {SubtractTag})
              /\ kcl_content[j].strs[2] = W_subtract
              /\ kcl_content[j].strs[3] = ExtrudeStatements[1].strs[1]
              /\ kcl_content[j].strs[4] = ExtrudeStatements[2].strs[1]

\* C4: at every point of a run, an Extrude or Revolve whose derivation statement has
\* been emitted has exactly one entry in feature_to_kcl_name, and its value is the
\* variable the statement defines
C4_DerivationRegistered ==
    \A k \in Handled("feature") :
        \A j \in DOMAIN BlockOf(k) :
            IsStatement(BlockOf(k)[j], {ExtrudeTag, ExtrudeFallbackTag, RevolveTag}) =>
                /\ Cardinality({i \in DOMAIN feature_to_kcl_name :
                                   feature_to_kcl_name[i][1] = FeatureAt(k).entityToken}) = 1
                /\ dict_get(feature_to_kcl_name, FeatureAt(k).entityToken)
                       = BlockOf(k)[j].strs[1]

\* C5: any two export_design runs on the model with the same debug setting return the
\* same document, whatever the exporter translated before
C5_SameDocument ==
    \A i \in DOMAIN results : \A j \in DOMAIN results :
        results[i].debug = results[j].debug => results[i].doc = results[j].doc

\* a curve of the sketch cannot be read from the host
HasFailingCurve(sketch) == \E i \in DOMAIN sketch.curves : sketch.curves[i].fail # "none"

\* C6: a sketch with a curve whose host query fails is translated without the failure
\* leaving export_sketch: a comment line stands inside the profile, the run goes on
\* to the later sketches and the features, and the indentation level is back to 0
\* after the sketch block
C6_CurveFaultLocal ==
    \A k \in Handled("sketch") :
        HasFailingCurve(SketchAt(k)) =>
            /\ ~log[k].raised
            /\ pc # "raised"
            /\ \E j \in DOMAIN BlockOf(k) : BlockOf(k)[j].cmt /\ BlockOf(k)[j].indent > 0
            /\ k = Len(log) => indent_level = 0

\* a host query fails while the feature is translated
HasFailingQuery(feature) == feature.failType \/ feature.failName \/ feature.failExtent

\* C7: a feature with a failing host query, the reading of its kind or name included,
\* is downgraded to a comment line and the later features are still translated
C7_FeatureFaultLocal ==
    \A k \in Handled("feature") :
        HasFailingQuery(FeatureAt(k)) =>
            /\ ~log[k].raised
            /\ pc # "raised"
            /\ \E j \in DOMAIN BlockOf(k) : BlockOf(k)[j].cmt

HasCircle(sketch) == \E i \in DOMAIN sketch.curves : sketch.curves[i].type = "circle"

NonCircles(sketch) == SelectSeq(sketch.curves, LAMBDA c : c.type # "circle")

\* the curves form one path: connected, no point on more than two curves
OnePath(c) ==
    /\ Len(c) >= 1
    /\ \A p \in EndPointsOf(c) : Incident(c, p) <= 2
    /\ Reach(c, {c[1].start}) = EndPointsOf(c)

\* the close statement is the last statement of the block: only comments and blank
\* lines follow it
ClosesLast(block) ==
    \E j \in DOMAIN block :
        /\ IsStatement(block[j], {CloseTag})
        /\ \A i \in (j + 1)..Len(block) : block[i].cmt \/ block[i].tag = ""

\* the sketch has a non-circle curve, the host reads all its curves, and the
\* non-circle curves connect into one path
ConnectedProfile(sketch) ==
    /\ ~HasFailingCurve(sketch)
    /\ OnePath(NonCircles(sketch))

ConvertedDistance(feature) == convert_internal_to_display_units(Self, feature.value).val

\* the classification of the sketch that drives the extrude
DrivingPlane(feature) ==
    get_plane_name(Self, app.design.sketches[feature.parentSketch].referencePlane).val

StartProfileTag == "|> startProfile(at = [{x}, {y}], %)"
LineTag == "  |> line(endAbsolute = [{end_x}, {end_y}], %)"
SplineLineTag == "  |> line(endAbsolute = [{end[0]}, {end[1]}], %)"

\* the raw sketch points of the curves of the sketch that the host can read
RawPoints(sketch) ==
    UNION {IF sketch.curves[i].fail = "points" THEN {}
           ELSE {sketch.curves[i].start, sketch.curves[i].end, sketch.curves[i].center}
                \cup {sketch.curves[i].fit[n] : n \in DOMAIN sketch.curves[i].fit} :
           i \in DOMAIN sketch.curves}

\* the classification of the sketch's plane
SketchPlane(sketch) == get_plane_name(Self, sketch.referencePlane).val

\* the converted raw value
Converted(value_cm) == convert_internal_to_display_units(Self, value_cm).val

\* the pair a raw point stands for on the plane: Y negated on XZ
PairOn(plane_name, point) ==
    IF plane_name = "XZ" THEN <<Converted(point[1]), 0 - Converted(point[2])>>
    ELSE <<Converted(point[1]), Converted(point[2])>>

\* C11: every coordinate pair in the block of a sketch (the startProfile point and the
\* line endpoints) is a raw point of the sketch converted, with Y negated when the
\* sketch is classified XZ and unchanged on XY and YZ, whatever sketch came before
C11_CoordinatesFollowPlane ==
    \A k \in Handled("sketch") :
        \A j \in DOMAIN BlockOf(k) :
            IsStatement(BlockOf(k)[j], {StartProfileTag, LineTag, SplineLineTag}) =>
                \E point \in RawPoints(SketchAt(k)) :
                    BlockOf(k)[j].nums = PairOn(SketchPlane(SketchAt(k)), point)

\* a sketch on XZ and then a sketch on XY have emitted line statements in one run,
\* the lines of the XZ sketch with negative Y
C11_Witness ==
    \E k \in Handled("sketch") : \E m \in Handled("sketch") :
        /\ log[k].idx = 1 /\ log[m].idx = 2
        /\ SketchPlane(SketchAt(k)) = "XZ"
        /\ SketchPlane(SketchAt(m)) = "XY"
        /\ \E j \in DOMAIN BlockOf(k) :
              IsStatement(BlockOf(k)[j], {LineTag}) /\ BlockOf(k)[j].nums[2] < 0
        /\ \E j \in DOMAIN BlockOf(m) :
              IsStatement(BlockOf(m)[j], {LineTag}) /\ BlockOf(m)[j].nums[2] > 0

StartSketchTag == "{sketch_var_name} = startSketchOn({plane_name})"

\* the positions in the document of the statements with one of the tags
StatementsAt(tags) == {j \in DOMAIN kcl_content : IsStatement(kcl_content[j], tags)}

\* one sketch of four lines that are the sides of the unit square, on XY, and one
\* extrude of distance 10 whose conversion is 1:1
IsScenarioA ==
    /\ Len(app.design.sketches) = 1
    /\ SketchPlane(app.design.sketches[1]) = "XY"
    /\ Len(app.design.sketches[1].curves) = 4
    /\ {{app.design.sketches[1].curves[i].start, app.design.sketches[1].curves[i].end} :
           i \in 1..4}
          = {{SquareCorners[i], SquareCorners[(i % 4) + 1]} : i \in 1..4}
    /\ Len(app.design.features) = 1
    /\ app.design.features[1].objectType = "ExtrudeFeature"
    /\ app.design.features[1].extent = "Distance"
    /\ Converted(app.design.features[1].value) = 10000

\* one startSketchOn, four line statements with pairwise distinct endpoints, one close
\* and one extrude of length 10, in that order
SquareDocument ==
    /\ Cardinality(StatementsAt({StartSketchTag})) = 1
    /\ Cardinality(StatementsAt({LineTag})) = 4
    /\ \A i, j \in StatementsAt({LineTag}) :
           i # j => kcl_content[i].nums # kcl_content[j].nums
    /\ Cardinality(StatementsAt({CloseTag})) = 1
    /\ Cardinality(StatementsAt({ExtrudeTag, ExtrudeFallbackTag})) = 1
    /\ \A a \in StatementsAt({StartSketchTag}) : \A b \in StatementsAt({LineTag}) :
       \A c \in StatementsAt({CloseTag}) : \A d \in StatementsAt({ExtrudeTag}) :
           a < b /\ b < c /\ c < d /\ kcl_content[d].nums = <<10000>>

\* C12: the document of a unit square of four lines on XY, the lines in any input
\* order, and one extrude of distance 10 under a 1:1 conversion holds one startSketchOn,
\* four line statements with distinct endpoints, one close and one extrude of length
\* 10, in that order
C12_ScenarioA == (IsScenarioA /\ pc = "done") => SquareDocument

\* the sides of the square are drawn head to tail, all along or all against the boundary
HeadToTail(sketch) ==
    \A i \in DOMAIN sketch.curves : \E j \in DOMAIN sketch.curves :
        sketch.curves[j].start = sketch.curves[i].end

\* the document of the scenario when the sides are drawn head to tail
C12_ScenarioAHeadToTail ==
    (IsScenarioA /\ HeadToTail(app.design.sketches[1]) /\ pc = "done") => SquareDocument

\* C13: a sketch with zero curves emits no sketch block: its lines are comments only
\* (no startSketchOn, startProfile, curve or close statement, no variable defined),
\* none of them indented further, and the indentation level is left as it was
C13_EmptySketchNoBlock ==
    \A k \in Handled("sketch") :
        Len(SketchAt(k).curves) = 0 =>
            /\ ~log[k].raised
            /\ \A j \in DOMAIN BlockOf(k) :
                  BlockOf(k)[j].cmt /\ BlockOf(k)[j].indent = log[k].indent
            /\ k = Len(log) => indent_level = log[k].indent

\* a sketch with zero curves has been skipped and the sketch after it translated
C13_Witness ==
    \E k \in Handled("sketch") : \E m \in Handled("sketch") :
        /\ log[k].idx = 1 /\ log[m].idx = 2
        /\ Len(SketchAt(k).curves) = 0
        /\ \E j \in DOMAIN BlockOf(k) :
              BlockOf(k)[j].tag = "Skipping {sketch.name} - no curves found"
        /\ \E j \in DOMAIN BlockOf(m) : IsStatement(BlockOf(m)[j], {StartSketchTag})

\* the items handled by op in the current run were taken in host order, none left out
InHostOrder(op) ==
    \A k \in Handled(op) : log[k].idx = Cardinality({m \in Handled(op) : m <= k})

\* C14: the sketches are processed in host order, all of them before any feature, and
\* the features in their original sequence; no line of a feature precedes a line of
\* a sketch
C14_SketchesThenFeatures ==
    /\ InHostOrder("sketch")
    /\ InHostOrder("feature")
    /\ Handled("feature") # {} =>
           /\ Cardinality(Handled("sketch")) = Len(app.design.sketches)
           /\ \A k \in Handled("sketch") : ~log[k].raised
    /\ \A k \in Handled("sketch") : \A m \in Handled("feature") :
           k < m /\ log[k].to <= log[m].from

\* a run over two sketches and two features has returned, each item with lines of its own
C14_Witness ==
    /\ pc = "done"
    /\ Cardinality(Handled("sketch")) = 2
    /\ Cardinality(Handled("feature")) = 2
    /\ \A k \in Handled("sketch") \cup Handled("feature") : log[k].from < log[k].to

W_join == <<"j","o","i","n">>
W_cut == <<"c","u","t">>

\* the host reports one of the three operations
ReportsOperation(combine) == combine.operation \in {"Join", "Cut", "Intersect"}

\* the operator the feature's name tells: union when it tells none
OperatorOfName(name) ==
    IF Contains(lower(name), W_join) \/ Contains(lower(name), W_union) THEN W_union
    ELSE IF Contains(lower(name), W_cut) \/ Contains(lower(name), W_subtract) THEN W_subtract
    ELSE IF Contains(lower(name), W_intersect) THEN W_intersect
    ELSE W_union

\* the operator of the combine: by its operation, else by its name
OperatorOf(combine) ==
    CASE combine.operation = "Join" -> W_union
      [] combine.operation = "Cut" -> W_subtract
      [] combine.operation = "Intersect" -> W_intersect
      [] OTHER -> OperatorOfName(combine.name)

\* C15: the operator of a Combine's statement is union for Join, subtract for Cut and
\* intersect for Intersect; when the host reports none of them it is the operator the
\* feature's name tells by substring, and union when the name tells none
C15_CombineOperator ==
    \A k \in Handled("feature") :
        FeatureAt(k).objectType = "CombineFeature" =>
            \A j \in DOMAIN BlockOf(k) :
                IsStatement(BlockOf(k)[j], {SubtractTag, BooleanTag}) =>
                    BlockOf(k)[j].strs[2] = OperatorOf(FeatureAt(k))

\* the operator of a Combine whose operation the host reports
C15_ReportedOperator ==
    \A k \in Handled("feature") :
        (FeatureAt(k).objectType = "CombineFeature" /\ ReportsOperation(FeatureAt(k))) =>
            \E j \in DOMAIN BlockOf(k) :
                /\ IsStatement(BlockOf(k)[j], {SubtractTag, BooleanTag})
                /\ BlockOf(k)[j].strs[2] = OperatorOf(FeatureAt(k))

\* the number the policy table gives for the extent, in thousandths of a display unit
TableDistance(extrude) ==
    CASE extrude.extent \in {"Distance", "Symmetric", "TwoSides"} -> Converted(extrude.value)
      [] extrude.extent = "ThroughAll" -> 100000
      [] extrude.extent = "ToEntity" -> 50000
      [] OTHER -> 10000

\* the length the statement carries: the number, negated on a sketch classified XZ
CarriedLength(extrude) ==
    IF DrivingPlane(extrude) = "XZ" THEN 0 - TableDistance(extrude)
    ELSE TableDistance(extrude)

\* the extrude statements of the block of the item logged at k
ExtrudeStatementsOf(k) ==
    {j \in DOMAIN BlockOf(k) : IsStatement(BlockOf(k)[j], {ExtrudeTag, ExtrudeFallbackTag})}

\* C16: an Extrude with a resolvable profile sketch emits exactly one extrude statement,
\* for every extent kind and also when the distance of the extent cannot be read; when
\* it can be read the statement carries the number of the policy table
C16_DistanceAlwaysResolved ==
    \A k \in Handled("feature") :
        (/\ FeatureAt(k).objectType = "ExtrudeFeature"
         /\ ~FeatureAt(k).failType /\ ~FeatureAt(k).failName
         /\ has_parent_sketch(FeatureAt(k))) =>
            /\ Cardinality(ExtrudeStatementsOf(k)) = 1
            /\ ~FeatureAt(k).failExtent =>
                   \A j \in ExtrudeStatementsOf(k) :
                       BlockOf(k)[j].nums = <<CarriedLength(FeatureAt(k))>>

\* the same for the extrudes whose extent can be read
C16_ReadableExtentResolved ==
    \A k \in Handled("feature") :
        (/\ FeatureAt(k).objectType = "ExtrudeFeature"
         /\ ~FeatureAt(k).failType /\ ~FeatureAt(k).failName /\ ~FeatureAt(k).failExtent
         /\ has_parent_sketch(FeatureAt(k))) =>
            /\ Cardinality(ExtrudeStatementsOf(k)) = 1
            /\ \A j \in ExtrudeStatementsOf(k) :
                   BlockOf(k)[j].nums = <<CarriedLength(FeatureAt(k))>>

\* the unit a unit-name string matches, the default mm when it matches none
UnitOfName(name) ==
    CASE name \in {"in", "inch"} -> "in"
      [] name \in {"mm", "millimeter"} -> "mm"
      [] name \in {"cm", "centimeter"} -> "cm"
      [] name \in {"m", "meter"} -> "m"
      [] name \in {"ft", "foot"} -> "ft"
      [] OTHER -> "mm"

\* the unit of the host: the enumeration's when it is one of the five, else the one
\* the unit-name string matches, else mm
UnitOfHost ==
    IF app.activeProduct # "Design" THEN "mm"
    ELSE IF app.distanceDisplayUnits \in {"mm", "cm", "m", "in", "ft"}
    THEN app.distanceDisplayUnits
    ELSE UnitOfName(app.defaultLengthUnits)

\* C17: whatever the host answers, detect_document_units returns one of mm, cm, m, in,
\* ft: the enumeration's unit when it is one of the five, otherwise the unit the
\* unit-name string matches, otherwise mm
C17_DetectedUnit ==
    Handled("begin") # {} =>
        /\ units \in {"mm", "cm", "m", "in", "ft"}
        /\ units = UnitOfHost

\* the same for the hosts whose enumeration query answers one of the five or raises
C17_DetectedUnitEnumKnownOrRaises ==
    (Handled("begin") # {}
       /\ (app.activeProduct = "Design" =>
              app.distanceDisplayUnits \in {"mm", "cm", "m", "in", "ft", "raise"})) =>
        /\ units \in {"mm", "cm", "m", "in", "ft"}
        /\ units = UnitOfHost

-----------------------------------------------------------------------------
(* Properties of the entry points *)

\* the fatal faults of a handler: no active product, a product that is not a
\* design, and for the batch command an active design without a data file
FatalFault(op) ==
    \/ app.activeProduct # "Design"
    \/ op = "batch" /\ ~app.dataFile

\* the handler made no export_design call, wrote no file and showed one message
AbortedWithOneMessage(e) ==
    /\ e.calls = 0
    /\ e.lines = 0
    /\ e.files = 0
    /\ Len(e.messages) = 1

\* C18: in the script run, the export command and the batch export, when there
\* is no active model, the active model is not a design, or (batch) it has no
\* data file, the handler ends before export_design produces anything, writes no
\* file and shows exactly one message.
C18_FatalFaultsAbort ==
    \A k \in DOMAIN log : FatalFault(log[k].op) => AbortedWithOneMessage(log[k])

\* C18 where the handler checks for the fault: every fault of the script run and
\* of the batch export, and the missing product in the export command; in the
\* export command with a product that is not a design no file is written and
\* one message is shown
C18_CheckedFaultsAbort ==
    \A k \in DOMAIN log :
        FatalFault(log[k].op) =>
            IF log[k].op = "command_execute" /\ app.activeProduct # "None"
            THEN log[k].files = 0 /\ Len(log[k].messages) = 1
            ELSE AbortedWithOneMessage(log[k])

-----------------------------------------------------------------------------
(* Properties of the order of the document's sections *)

HeaderTags == {"Generated from Fusion 360", "Design: {design.parentDocument.name}"}

UnitTags == {"// Set units", "@settings(defaultLengthUnit = {self.units})"}

ParameterTags ==
    {"=== PARAMETERS ===", "User Parameters:", "Model Parameters (auto-generated):",
     "{kcl_param_name} = {value}", "No parameters found in design",
     "No user parameters defined", "Error exporting parameters: {e}",
     "Error exporting parameter {param.name}: {e}"}

\* the comments of detect_document_units
DetectionTags ==
    {"No active design found, defaulting to mm",
     "fusionUnitsManager.distanceDisplayUnits enum: {enum}", "Detected unit from enum",
     "Unsupported enum value {enum}, defaulting to mm", "fusionUnitsManager failed: {e1}",
     "unitsManager also failed: {e2}", "unitsManager.defaultLengthUnits: '{string}'",
     "Detected unit from string"}

\* blank lines and the comments of the unit conversion occur in several sections
SharedTags ==
    {"", "Unit conversion failed: {e}, using raw value",
     "Converted {value_cm} cm to {display_value} {units}"}

\* 1 header, 2 unit directive, 3 parameters, 4 component; 0 for a line that
\* belongs to no section of its own
SectionOf(line) ==
    CASE line.tag \in HeaderTags -> 1
      [] line.tag \in UnitTags -> 2
      [] line.tag \in ParameterTags -> 3
      [] line.tag \in SharedTags \cup DetectionTags -> 0
      [] OTHER -> 4

SectionsAscend(doc) ==
    \A i, j \in DOMAIN doc :
        (i < j /\ SectionOf(doc[i]) # 0 /\ SectionOf(doc[j]) # 0) =>
            SectionOf(doc[i]) <= SectionOf(doc[j])

\* the lines of doc after its leading comments of the unit detection
RECURSIVE AfterDetection(_)
AfterDetection(doc) ==
    IF Len(doc) > 0 /\ Head(doc).tag \in DetectionTags THEN AfterDetection(Tail(doc)) ELSE doc

HeaderFirst(doc) == Len(doc) > 0 /\ SectionOf(doc[1]) = 1

\* C19: in every document export_design returns, with debug output on or off,
\* the header comes first, then the unit directive, then the parameter block,
\* then the sketch blocks and feature statements; nothing precedes the header.
C19_SectionOrder ==
    \A k \in DOMAIN results :
        HeaderFirst(results[k].doc) /\ SectionsAscend(results[k].doc)

\* C19 with debug output off; with debug output on the sections ascend and the
\* header follows the comments of the unit detection
C19_SectionOrderAfterDetection ==
    \A k \in DOMAIN results :
        /\ SectionsAscend(results[k].doc)
        /\ HeaderFirst(AfterDetection(results[k].doc))
        /\ ~results[k].debug => HeaderFirst(results[k].doc)

-----------------------------------------------------------------------------
(* Properties of get_safe_name *)

\* the alphanumeric runs of name, in order
RunsOf(name) == findall_alnum(name, <<>>, <<>>)

\* the first run lower-cased, each later run capitalised
RECURSIVE CamelOf(_, _)
CamelOf(words, k) ==
    IF k > Len(words) THEN <<>>
    ELSE (IF k = 1 THEN lower(words[k]) ELSE capitalize(words[k])) \o CamelOf(words, k + 1)

IsIdentifier(s) ==
    /\ Len(s) > 0
    /\ \A i \in DOMAIN s : IsAlnum(s[i])
    /\ InSeq(LowerChars, s[1])

\* C20: get_safe_name returns a non-empty identifier of ASCII letters and digits
\* whose first character is a lower-case letter: the name's alphanumeric runs in
\* order, the first lower-cased and each later one capitalised, prefixed with
\* 'sketch' when that would start with a digit.
C20_SafeName ==
    pc = "named" =>
        /\ IsIdentifier(sort_out)
        /\ Len(RunsOf(sort_in)) > 0 =>
              sort_out = IF isdigit(CamelOf(RunsOf(sort_in), 1)[1])
                         THEN <<"s","k","e","t","c","h">> \o CamelOf(RunsOf(sort_in), 1)
                         ELSE CamelOf(RunsOf(sort_in), 1)

\* C20 for a name whose first run starts with a letter; after a leading digit
\* every letter of the result is lower-case
C20_SafeNameLetterFirst ==
    pc = "named" =>
        /\ IsIdentifier(sort_out)
        /\ Len(RunsOf(sort_in)) > 0 =>
              sort_out = IF isdigit(RunsOf(sort_in)[1][1])
                         THEN <<"s","k","e","t","c","h">> \o lower(CamelOf(RunsOf(sort_in), 1))
                         ELSE CamelOf(RunsOf(sort_in), 1)

-----------------------------------------------------------------------------
(* Properties of the Plane Classifier *)

\* C21: get_plane_name gives the same plane for a planar reference with normal
\* n and with normal -n, the plane is one of XY, XZ, YZ, and the normals
\* (0,0,1) and (0,0,-1) both give XY.
C21_PlaneOfOppositeNormal ==
    /\ \A i \in DOMAIN sort_out : sort_out[i] \in {"XY", "XZ", "YZ"}
    /\ pc = "opposite" => sort_out[1] = sort_out[2]
    /\ (pc = "opposite" /\ sort_in.normal \in {<<0, 0, 100>>, <<0, 0, -100>>}) =>
           sort_out = <<"XY", "XY">>

\* both signs of an axis normal other than Z were classified
C21_Witness ==
    /\ pc = "opposite"
    /\ sort_in.normal = <<0, -100, 0>>
    /\ sort_out = <<"XZ", "XZ">>

-----------------------------------------------------------------------------
(* Properties of the extension steps of the stitcher *)

\* the unused curves when the k-th curve of the order is appended
UnusedAt(c, order, k) ==
    {order[m] : m \in (k + 1)..Len(order)} \cap curve_endpoints(c)

ForwardMatch(cur, curve) == points_are_close(cur, get_curve_start_point(curve))
ReverseMatch(cur, curve) ==
    ~ForwardMatch(cur, curve) /\ points_are_close(cur, get_curve_end_point(curve))

\* the steps of the walk along the order that append a curve in reverse, each
\* with the current endpoint; the walk starts behind the first curve and ends
\* where a curve matches the current endpoint in neither direction
RECURSIVE ReverseSteps(_, _, _, _)
ReverseSteps(c, order, k, cur) ==
    IF k > Len(order) \/ order[k] \notin curve_endpoints(c) THEN {}
    ELSE IF ForwardMatch(cur, c[order[k]])
    THEN ReverseSteps(c, order, k + 1, get_curve_end_point(c[order[k]]))
    ELSE IF ReverseMatch(cur, c[order[k]])
    THEN {[cur |-> cur, k |-> k]}
         \cup ReverseSteps(c, order, k + 1, get_curve_start_point(c[order[k]]))
    ELSE {}

AllReverseSteps(c, order) ==
    IF Len(order) > 0 /\ order[1] \in curve_endpoints(c)
    THEN ReverseSteps(c, order, 2, get_curve_end_point(c[order[1]]))
    ELSE {}

\* C22: a curve is appended in reverse only if no unused curve has a start point
\* matching the current endpoint.
C22_ForwardBeforeReverse ==
    pc = "sorted" =>
        \A step \in AllReverseSteps(sort_in, sort_out) :
            \A i \in UnusedAt(sort_in, sort_out, step.k) :
                ~ForwardMatch(step.cur, sort_in[i])

\* C22 among the curves in front of the appended one: a curve is appended in
\* reverse only if no unused curve of a smaller index matches the current
\* endpoint in either direction
C22_FirstMatchInInputOrder ==
    pc = "sorted" =>
        \A step \in AllReverseSteps(sort_in, sort_out) :
            \A i \in UnusedAt(sort_in, sort_out, step.k) :
                i < sort_out[step.k] =>
                    /\ ~ForwardMatch(step.cur, sort_in[i])
                    /\ ~ReverseMatch(step.cur, sort_in[i])

-----------------------------------------------------------------------------
(* Properties of the start selection of the stitcher *)

Orderings(n) == {f \in [1..n -> 1..n] : \A i, j \in 1..n : f[i] = f[j] => i = j}

Reordered(c, f) == [k \in 1..Len(c) |-> c[f[k]]]

\* the curve the stitcher starts with when it is given c
StartOf(c) == c[sort_curves_by_connectivity(Self, c).val[1]]

\* C23: the starting curve does not depend on the input order: for every two
\* orderings of a set of curves the same curve is selected, also when several
\* curves share the smallest start point.
C23_StartIndependentOfOrder ==
    (pc = "sorted" /\ curve_endpoints(sort_in) # {}) =>
        \A f \in Orderings(Len(sort_in)) :
            StartOf(Reordered(sort_in, f)) = sort_in[sort_out[1]]

\* C23 for the start point: in every ordering the selected curve starts at the
\* same point, the lexicographically smallest converted start point, and the
\* curve is the same when only one curve starts there
C23_StartPointIndependentOfOrder ==
    (pc = "sorted" /\ curve_endpoints(sort_in) # {}) =>
        \A f \in Orderings(Len(sort_in)) :
            /\ ConvertedStart(StartOf(Reordered(sort_in, f)))
                   = ConvertedStart(sort_in[sort_out[1]])
            /\ \A i \in curve_endpoints(sort_in) :
                   LexLeq(ConvertedStart(sort_in[sort_out[1]]), ConvertedStart(sort_in[i]))
            /\ Cardinality({i \in curve_endpoints(sort_in) :
                               ConvertedStart(sort_in[i])
                                   = ConvertedStart(sort_in[sort_out[1]])}) = 1
                   => StartOf(Reordered(sort_in, f)) = sort_in[sort_out[1]]

-----------------------------------------------------------------------------
(* Properties of circles in the stitcher *)

\* the positions of the order whose curve was appended because it matched the
\* current endpoint, in either direction
RECURSIVE MatchedSteps(_, _, _, _)
MatchedSteps(c, order, k, cur) ==
    IF k > Len(order) \/ order[k] \notin curve_endpoints(c) THEN {}
    ELSE IF ForwardMatch(cur, c[order[k]])
    THEN {k} \cup MatchedSteps(c, order, k + 1, get_curve_end_point(c[order[k]]))
    ELSE IF ReverseMatch(cur, c[order[k]])
    THEN {k} \cup MatchedSteps(c, order, k + 1, get_curve_start_point(c[order[k]]))
    ELSE {}

AllMatchedSteps(c, order) ==
    IF Len(order) > 0 /\ order[1] \in curve_endpoints(c)
    THEN MatchedSteps(c, order, 2, get_curve_end_point(c[order[1]]))
    ELSE {}

IsCircle(curve) == curve.type = "circle"

\* C24: a circle is never appended because its centre matches the current
\* endpoint, the path is never continued from a circle's centre, and a circle is
\* never the starting curve when the sketch also has non-circle curves.
C24_CirclesNeverChained ==
    pc = "sorted" =>
        /\ \A k \in AllMatchedSteps(sort_in, sort_out) :
              /\ ~IsCircle(sort_in[sort_out[k]])
              /\ ~IsCircle(sort_in[sort_out[k - 1]])
        /\ (\E i \in curve_endpoints(sort_in) : ~IsCircle(sort_in[i])) =>
              ~IsCircle(sort_in[sort_out[1]])

\* the centre of circle i is an endpoint of no other readable curve
CentreApart(c, i) ==
    \A j \in curve_endpoints(c) \ {i} :
        /\ ~points_are_close(c[i].center, get_curve_start_point(c[j]))
        /\ ~points_are_close(c[i].center, get_curve_end_point(c[j]))

\* C24 for a circle whose centre is an endpoint of no other curve: it is not
\* appended by a match and the path is not continued from it
C24_CircleApartNotChained ==
    pc = "sorted" =>
        \A k \in AllMatchedSteps(sort_in, sort_out) :
            /\ IsCircle(sort_in[sort_out[k]]) => ~CentreApart(sort_in, sort_out[k])
            /\ IsCircle(sort_in[sort_out[k - 1]]) => ~CentreApart(sort_in, sort_out[k - 1])

-----------------------------------------------------------------------------
(* Properties of the lines of a stitched polygon *)

\* the points the stitcher advances to along the order, one per chained curve
RECURSIVE AdvancedPoints(_, _, _, _)
AdvancedPoints(c, order, k, cur) ==
    IF k > Len(order) \/ order[k] \notin curve_endpoints(c) THEN <<>>
    ELSE IF ForwardMatch(cur, c[order[k]])
    THEN <<get_curve_end_point(c[order[k]])>>
         \o AdvancedPoints(c, order, k + 1, get_curve_end_point(c[order[k]]))
    ELSE IF ReverseMatch(cur, c[order[k]])
    THEN <<get_curve_start_point(c[order[k]])>>
         \o AdvancedPoints(c, order, k + 1, get_curve_start_point(c[order[k]]))
    ELSE <<>>

\* the order the stitcher gives the curves of the sketch
StitchedOrder(sketch) ==
    sort_curves_by_connectivity([Self EXCEPT !.current_sketch_plane = SketchPlane(sketch)],
                                sketch.curves).val

\* the points advanced to for the edges of the sketch, the first edge included
AdvancedOf(sketch) ==
    <<get_curve_end_point(sketch.curves[StitchedOrder(sketch)[1]])>>
    \o AdvancedPoints(sketch.curves, StitchedOrder(sketch), 2,
                      get_curve_end_point(sketch.curves[StitchedOrder(sketch)[1]]))

\* the endpoints of the line statements of a block, in order
LineEndsOf(block) ==
    [n \in 1..Len(SelectSeq(block, LAMBDA l : IsStatement(l, {LineTag}))) |->
        SelectSeq(block, LAMBDA l : IsStatement(l, {LineTag}))[n].nums]

\* a closed polygon none of whose edges is shorter than 0.001 display units
IsProperPolygon(sketch) ==
    /\ IsClosedPolygon(sketch.curves)
    /\ \A i \in DOMAIN sketch.curves :
          PairOn(SketchPlane(sketch), sketch.curves[i].start)
              # PairOn(SketchPlane(sketch), sketch.curves[i].end)

LinesFollowStitcher(k) ==
    /\ Len(LineEndsOf(BlockOf(k))) = Len(SketchAt(k).curves)
    /\ LineEndsOf(BlockOf(k)) =
          [n \in 1..Len(AdvancedOf(SketchAt(k))) |->
              PairOn(SketchPlane(SketchAt(k)), AdvancedOf(SketchAt(k))[n])]

\* C25: for a sketch whose lines form a closed polygon with edges of at least
\* 0.001 display units, stored in arbitrary direction, the block holds one line
\* statement per edge, and each ends at the point the stitcher advanced to for
\* its edge, also for edges traversed in reverse.
C25_OneLinePerEdge ==
    \A k \in Handled("sketch") :
        (IsProperPolygon(SketchAt(k)) /\ ~log[k].raised) => LinesFollowStitcher(k)

\* C25 for a polygon whose edges are drawn head to tail
C25_OneLinePerEdgeHeadToTail ==
    \A k \in Handled("sketch") :
        (IsProperPolygon(SketchAt(k)) /\ HeadToTail(SketchAt(k)) /\ ~log[k].raised)
            => LinesFollowStitcher(k)

-----------------------------------------------------------------------------
(* Properties of the registration in the Lineage Tracker *)

\* the variable a dictionary gives the key, None when it has none
Lookup(d, k) == IF dict_has(d, k) THEN dict_get(d, k) ELSE None

\* the body tokens the feature reports: none when reading them raises
ReportedBodies(feature) ==
    IF feature.failBodies THEN {} ELSE {feature.bodies[i] : i \in DOMAIN feature.bodies}

CreatedBy(bodies, feature) ==
    {i \in DOMAIN bodies : bodies[i].createdBy = feature.entityToken}

\* the body tokens the fallback chain maps for the feature
ChainTokens(feature, bodies) ==
    IF ReportedBodies(feature) # {} THEN ReportedBodies(feature)
    ELSE IF Len(bodies) = 0 THEN {}
    ELSE IF Len(bodies) = 1 THEN {bodies[1].entityToken}
    ELSE IF CreatedBy(bodies, feature) # {}
    THEN {bodies[CHOOSE i \in CreatedBy(bodies, feature) :
                     \A j \in CreatedBy(bodies, feature) : i <= j].entityToken}
    ELSE {bodies[Len(bodies)].entityToken}

\* the step of the run that takes up an extrude and emits its statement
RegistersExtrude ==
    /\ pc = "features"
    /\ fi' = fi + 1
    /\ app.design.features[fi].objectType = "ExtrudeFeature"
    /\ \E j \in (Len(kcl_content) + 1)..Len(kcl_content') :
          IsStatement(kcl_content'[j], {ExtrudeTag})

\* the variable of the extrude statement the step emitted
RegisteredName ==
    kcl_content'[CHOOSE j \in (Len(kcl_content) + 1)..Len(kcl_content') :
                     IsStatement(kcl_content'[j], {ExtrudeTag})].strs[1]

AllBodyTokens == {B1, B2, B3}

-----------------------------------------------------------------------------
(* Properties of the operands of a combine without body references *)

\* the extrude statements and the boolean statements in front of item k
ExtrudesBefore(k) ==
    SelectSeq(SubSeq(kcl_content, 1, log[k].from),
              LAMBDA line : IsStatement(line, {ExtrudeTag, ExtrudeFallbackTag}))

BooleansBefore(k) ==
    SelectSeq(SubSeq(kcl_content, 1, log[k].from),
              LAMBDA line : IsStatement(line, {SubtractTag, BooleanTag}))

\* item k is a combine whose operands the Lineage Tracker cannot resolve, taken
\* up after two or more extrude statements
IsUnresolvedCombine(k) ==
    /\ ~log[k].raised
    /\ FeatureAt(k).objectType = "CombineFeature"
    /\ ~MappedInLineage(FeatureAt(k).targetBody)
    /\ \A i \in DOMAIN FeatureAt(k).toolBodies : ~MappedInLineage(FeatureAt(k).toolBodies[i])
    /\ Len(ExtrudesBefore(k)) >= 2

FirstTwoExtrudes(k) ==
    \E j \in DOMAIN BlockOf(k) :
        /\ IsStatement(BlockOf(k)[j], {SubtractTag, BooleanTag})
        /\ BlockOf(k)[j].strs[3] = ExtrudesBefore(k)[1].strs[1]
        /\ BlockOf(k)[j].strs[4] = ExtrudesBefore(k)[2].strs[1]

\* C27: a combine whose operands cannot be resolved, the first or a later one of
\* the run, after two or more extrudes, emits a boolean statement whose target
\* and tool are the first and the second extrude variable by creation order.
C27_PositionalOperands ==
    \A k \in Handled("feature") : IsUnresolvedCombine(k) => FirstTwoExtrudes(k)

\* C27 for the first combine of the run
C27_PositionalOperandsFirstCombine ==
    \A k \in Handled("feature") :
        (IsUnresolvedCombine(k) /\ Len(BooleansBefore(k)) = 0) => FirstTwoExtrudes(k)

-----------------------------------------------------------------------------
(* Properties of the result of the Curve Graph Stitcher as a collection *)

\* the order holds every position of 1..n exactly once and nothing else
IsPermutationOf(order, n) ==
    /\ Len(order) = n
    /\ \A i \in 1..n : \E m \in DOMAIN order : order[m] = i
    /\ \A m \in DOMAIN order : order[m] \in 1..n

\* C28: for every input, connected or not and with curves whose start or end
\* point cannot be read, sort_curves_by_connectivity returns a permutation of
\* its input: every input curve exactly once and nothing else.
C28_ResultIsPermutation ==
    pc = "sorted" => IsPermutationOf(sort_out, Len(sort_in))

\* C28 as the code has it: the result holds exactly once every curve whose two
\* endpoints can be read, and all curves in the given order when none can
C28_ResultIsPermutationOfReadable ==
    pc = "sorted" =>
        IF curve_endpoints(sort_in) = {}
        THEN sort_out = [i \in 1..Len(sort_in) |-> i]
        ELSE /\ Len(sort_out) = Cardinality(curve_endpoints(sort_in))
             /\ {sort_out[m] : m \in DOMAIN sort_out} = curve_endpoints(sort_in)

-----------------------------------------------------------------------------
(* Properties of the variables a document defines *)

FeatureStatementTags == {ExtrudeTag, ExtrudeFallbackTag, RevolveTag, SubtractTag, BooleanTag}
DefinitionTags == {StartSketchTag} \cup FeatureStatementTags

\* the variable the statement at position j of the document defines
DefinedAt(j) == kcl_content[j].strs[1]

\* no two statements with one of the tags define the same variable
DefinedOnce(tags) ==
    \A i, j \in StatementsAt(tags) : i # j => DefinedAt(i) # DefinedAt(j)

\* C29: in every document no variable is defined twice: the left-hand sides of
\* all sketch, extrude, revolve and combine statements are pairwise distinct,
\* whatever names the sketches carry.
C29_DefinedOnce == DefinedOnce(DefinitionTags)

\* C29 for the statements of the features alone, whose names are generated
C29_GeneratedDefinedOnce == DefinedOnce(FeatureStatementTags)

-----------------------------------------------------------------------------
(* Properties of the variables a statement refers to *)

\* the variable is defined by a statement with one of the tags in front of position j
DefinedBefore(name, j, tags) ==
    \E i \in StatementsAt(tags) : i < j /\ DefinedAt(i) = name

\* the sketch variable of every extrude and revolve statement is defined by an
\* earlier sketch statement
SketchesDefinedBefore ==
    \A j \in StatementsAt({ExtrudeTag, ExtrudeFallbackTag, RevolveTag}) :
        DefinedBefore(kcl_content[j].strs[2], j, {StartSketchTag})

\* the target and the tool of every boolean statement are defined by an earlier
\* extrude, revolve or combine statement
OperandsDefinedBefore ==
    \A j \in StatementsAt({SubtractTag, BooleanTag}) :
        /\ DefinedBefore(kcl_content[j].strs[3], j, FeatureStatementTags)
        /\ DefinedBefore(kcl_content[j].strs[4], j, FeatureStatementTags)

\* C30: every variable on the right-hand side of an extrude, revolve or combine
\* statement is defined by a statement on an earlier line of the document: the
\* sketch variable by a sketch block, each operand of a boolean statement by an
\* extrude, revolve or combine statement.
C30_DefinedBeforeUse == SketchesDefinedBefore /\ OperandsDefinedBefore

\* C30 for the extrudes and revolves whose profile leads to a sketch that has curves
C30_DrawnSketchDefinedBeforeUse ==
    \A k \in Handled("feature") :
        (/\ ~log[k].raised
         /\ FeatureAt(k).objectType \in {"ExtrudeFeature", "RevolveFeature"}
         /\ has_parent_sketch(FeatureAt(k))
         /\ Len(app.design.sketches[FeatureAt(k).parentSketch].curves) > 0) =>
            \A j \in DOMAIN BlockOf(k) :
                IsStatement(BlockOf(k)[j], {ExtrudeTag, RevolveTag}) =>
                    DefinedBefore(BlockOf(k)[j].strs[2], log[k].from + j, {StartSketchTag})

====
